---- MODULE Spec2Model ----
(***************************************************************************)
(* Badly: file-backed entity store (storage.js), session lifecycle and     *)
(* reminder scheduler (server.js, version 1.3.5) and push dispatch         *)
(* (notifications.js as called through notifyAndCleanup).                  *)
(*                                                                         *)
(* Thirteen specifications share this module:                              *)
(*   SpecStore : one AtomicFileStore (primary, backup, temp file, cache)   *)
(*   Spec      : one session under every handler, the clock, the scheduler *)
(*   SpecPairs : several sessions under create, edit, delete and list      *)
(*   SpecPush  : the Users collection, subscriptions and dispatches        *)
(*   SpecSocial: one session with its participants, followers and chat     *)
(*   SpecScan  : one session under the reminder timer, minute by minute    *)
(*   SpecFlow  : a mutating request call by call, and its notifications    *)
(*   SpecRoster: one session under join, leave, bulk update and follow     *)
(*   SpecCeiling: the Sessions collection filled to MAX_SESSIONS           *)
(*   SpecChat  : one session whose chat grows past its cap                 *)
(*   SpecRemind: two sessions under joins, leaves, an edit and the scan    *)
(*   SpecTimer : the reminder timer call by call, with restarts            *)
(*   SpecResubscribe: subscribePush served while a dispatch is sending     *)
(* Time is counted in minutes.                                             *)
(***************************************************************************)
EXTENDS Integers, Sequences, FiniteSets, TLC

VARIABLES
    primary,    \* the entity file: [exists, data], data a sequence of tokens
    backup,     \* the sibling .bak file
    tmp,        \* the temp file of the atomic write in progress
    cache,      \* the module-level cache: [set, val]
    w,          \* position inside writeFile / atomicWriteFileSync
    last,       \* outcome of the last completed read() / write() call
    intr,       \* record of the last interrupted write
    recovered,  \* the list a backup recovery returned, while it is current
    now,        \* the clock, in minutes
    sessions,   \* the Sessions collection as readSessions() returns it
    sessionsFile, \* the Sessions collection as last written to sessions.json
    nextId,     \* the next session id (crypto.randomUUID is fresh each time)
    resp,       \* the last step served and its response: [op, sid, status, error,
                \* wrote]
    notified,   \* the notifyAndCleanup calls made by the last step
    fired,      \* per session id: [n, prior, late], the reminders dispatched since the
                \* datetime was last set, and whether there were any before
    users,      \* the Users collection as readUsers() returns it
    usersFile,  \* the Users collection as last written to users.json
    disp,       \* the dispatches (notifyAndCleanup calls) in flight
    run,        \* the request handler in progress: its request and the steps left
    log         \* the effects of the handler that ran last, in order

storeVars == <<primary, backup, tmp, cache, w, last, intr, recovered>>

lifeVars == <<now, sessions, sessionsFile, nextId, resp, notified, fired>>

pushVars == <<users, usersFile, disp>>

flowVars == <<run, log>>

vars == <<primary, backup, tmp, cache, w, last, intr, recovered,
          now, sessions, sessionsFile, nextId, resp, notified, fired,
          users, usersFile, disp, run, log>>

----------------------------------------------------------------------------
(* Bounds of the store model *)

MaxLen == 1         \* lists of at most MaxLen elements

Items == {1, 2}     \* the records a list holds

Lists == UNION {[1..n -> Items] : n \in 0..MaxLen}

seed == <<>>

----------------------------------------------------------------------------
(* Files and JSON text.  A file content is a sequence of tokens: brackets, *)
(* commas, element literals, "ws" (newline and indentation), "{", "}" and  *)
(* "x" (bytes that are no JSON).                                           *)

NoFile == [exists |-> FALSE, data |-> <<>>]

File(d) == [exists |-> TRUE, data |-> d]

RECURSIVE JoinItems(_)
JoinItems(l) ==
    IF l = <<>> THEN <<>>
    ELSE IF Len(l) = 1 THEN <<"ws", ToString(l[1])>>
    ELSE <<"ws", ToString(l[1]), ",">> \o JoinItems(Tail(l))

\* `${JSON.stringify(data, null, 2)}\n`
Serialize(l) ==
    IF l = <<>> THEN <<"[", "]", "ws">>
    ELSE <<"[">> \o JoinItems(l) \o <<"ws", "]", "ws">>

StripWs(raw) == SelectSeq(raw, LAMBDA t : t # "ws")

\* raw.trim() is the empty string
IsBlank(raw) == StripWs(raw) = <<>>

ItemToks == {ToString(i) : i \in Items}

ItemOf(t) == CHOOSE i \in Items : ToString(i) = t

\* the text between the brackets: element (, element)*
WellFormedBody(b) ==
    /\ Len(b) % 2 = 1
    /\ \A k \in 1..Len(b) : IF k % 2 = 1 THEN b[k] \in ItemToks ELSE b[k] = ","

BodyItems(b) == [k \in 1..((Len(b) + 1) \div 2) |-> ItemOf(b[2 * k - 1])]

\* JSON.parse(raw): ok = it does not throw, isArray = Array.isArray(parsed)
JSONparse(raw) ==
    LET s == StripWs(raw)
        n == Len(s)
    IN  IF n >= 2 /\ s[1] = "[" /\ s[n] = "]"
        THEN IF n = 2
             THEN [ok |-> TRUE, isArray |-> TRUE, val |-> <<>>]
             ELSE IF WellFormedBody(SubSeq(s, 2, n - 1))
                  THEN [ok |-> TRUE, isArray |-> TRUE,
                        val |-> BodyItems(SubSeq(s, 2, n - 1))]
                  ELSE [ok |-> FALSE, isArray |-> FALSE, val |-> <<>>]
        ELSE IF s = <<"{", "}">> \/ (n = 1 /\ s[1] \in ItemToks)
             THEN [ok |-> TRUE, isArray |-> FALSE, val |-> <<>>]
             ELSE [ok |-> FALSE, isArray |-> FALSE, val |-> <<>>]

\* mutant: content that is no array is replaced by the seed instead of
\* being refused
parseOrSeedLenient(raw) ==
    IF IsBlank(raw) \/ ~JSONparse(raw).isArray
    THEN [ok |-> TRUE, isArray |-> TRUE, val |-> seed]
    ELSE JSONparse(raw)

\* raw.trim() ? JSON.parse(raw) : seed, then the Array.isArray test
parseOrSeed(raw) ==
    IF IsBlank(raw) THEN [ok |-> TRUE, isArray |-> TRUE, val |-> seed]
    ELSE JSONparse(raw)

\* the try block of readFile accepts the content
Loadable(f) == f.exists /\ parseOrSeed(f.data).ok /\ parseOrSeed(f.data).isArray

Loaded(f) == parseOrSeed(f.data).val

\* what a file can hold when the process starts
Texts ==
    {<<>>, <<"ws">>, <<"x">>, <<"{", "}">>, <<"[", "ws", "1">>}
        \cup {Serialize(l) : l \in Lists}

Files == {NoFile} \cup {File(t) : t \in Texts}

NoCache == [set |-> FALSE, val |-> <<>>]

Idle == [pc |-> "idle", phase |-> "primary", data |-> <<>>, ctx |-> "write",
         p0 |-> NoFile, b0 |-> NoFile]

NoCall == [op |-> "none", status |-> "none", val |-> <<>>, fresh |-> FALSE,
           p0 |-> NoFile, b0 |-> NoFile]

NoIntr == [active |-> FALSE, at |-> "idle", phase |-> "primary", p0 |-> NoFile,
           data |-> <<>>]

NoRecovery == [active |-> FALSE, val |-> <<>>]

\* the store of SpecStore holds abstract records: no session, user or dispatch
NoResp == [op |-> "none", sid |-> 0, status |-> 0, error |-> "", wrote |-> FALSE]

\* no handler is running
NoHandler == [op |-> "none", sid |-> 0, steps |-> <<>>, calls |-> <<>>]

FlowIdle ==
    /\ run = NoHandler
    /\ log = <<>>

LifeIdle ==
    /\ now = 0
    /\ sessions = <<>>
    /\ sessionsFile = <<>>
    /\ nextId = 1
    /\ resp = NoResp
    /\ notified = <<>>
    /\ fired = <<>>

PushIdle ==
    /\ users = <<>>
    /\ usersFile = <<>>
    /\ disp = <<>>

StoreIdle ==
    /\ primary = NoFile
    /\ backup = NoFile
    /\ tmp = NoFile
    /\ cache = NoCache
    /\ w = Idle
    /\ last = NoCall
    /\ intr = NoIntr
    /\ recovered = NoRecovery

StoreInit ==
    /\ primary \in Files
    /\ backup \in Files
    /\ tmp = NoFile
    /\ cache = NoCache
    /\ w = Idle
    /\ last = NoCall
    /\ intr = NoIntr
    /\ recovered = NoRecovery
    /\ LifeIdle
    /\ PushIdle
    /\ FlowIdle

----------------------------------------------------------------------------
(* writeFile and atomicWriteFileSync.  The whole of readFile / writeFile   *)
(* is synchronous, so nothing of the program runs between two steps of a   *)
(* write; only a crash or a failing fs call can cut it short.              *)

\* writeFile is entered: the first atomicWriteFileSync targets the primary
BeginWrite(ctx, data) ==
    /\ w' = [pc |-> "open", phase |-> "primary", data |-> data, ctx |-> ctx,
             p0 |-> primary, b0 |-> backup]
    /\ intr' = NoIntr

\* mutant: the restore of the primary is not wrapped in try/catch, so a
\* failed restore makes the read fail
ReturnUncaught(ok) ==
    /\ w' = Idle
    /\ cache' = IF ok THEN [set |-> TRUE, val |-> w.data] ELSE cache
    /\ last' = IF w.ctx = "write"
               THEN [op |-> "write", status |-> IF ok THEN "ok" ELSE "error",
                     val |-> <<>>, fresh |-> FALSE, p0 |-> NoFile, b0 |-> NoFile]
               ELSE [op |-> "read", status |-> IF ok THEN "ok" ELSE "error",
                     val |-> IF ok THEN w.data ELSE <<>>, fresh |-> TRUE,
                     p0 |-> w.p0, b0 |-> w.b0]
    /\ recovered' = IF w.ctx = "restore" /\ ok
                    THEN [active |-> TRUE, val |-> w.data]
                    ELSE IF w.ctx = "write" /\ ok THEN NoRecovery ELSE recovered

\* the call that entered writeFile returns (or throws): ok says whether the
\* primary was replaced
Return(ok) ==
    /\ w' = Idle
    /\ IF w.ctx = "write"
       THEN /\ cache' = IF ok THEN [set |-> TRUE, val |-> w.data] ELSE cache
            /\ last' = [op |-> "write", status |-> IF ok THEN "ok" ELSE "error",
                        val |-> <<>>, fresh |-> FALSE, p0 |-> NoFile, b0 |-> NoFile]
            /\ recovered' = IF ok THEN NoRecovery ELSE recovered
       ELSE IF w.ctx = "seed"
       THEN /\ cache' = IF ok THEN [set |-> TRUE, val |-> w.data] ELSE cache
            /\ last' = [op |-> "read", status |-> IF ok THEN "ok" ELSE "error",
                        val |-> IF ok THEN w.data ELSE <<>>, fresh |-> TRUE,
                        p0 |-> w.p0, b0 |-> w.b0]
            /\ recovered' = recovered
       ELSE \* "restore": a failed restore is caught, the backup's list is cached
            /\ cache' = [set |-> TRUE, val |-> w.data]
            /\ last' = [op |-> "read", status |-> "ok", val |-> w.data,
                        fresh |-> TRUE, p0 |-> w.p0, b0 |-> w.b0]
            /\ recovered' = [active |-> TRUE, val |-> w.data]

\* fs.openSync(tmpPath, 'w', 0o600)
OpenTmp ==
    /\ UNCHANGED <<lifeVars, pushVars, flowVars>>
    /\ w.pc = "open"
    /\ tmp' = File(<<>>)
    /\ w' = [w EXCEPT !.pc = "write"]
    /\ UNCHANGED <<primary, backup, cache, last, intr, recovered>>

\* mutant: the contents are written into the target itself, no temp file
WriteInPlace ==
    /\ UNCHANGED <<lifeVars, pushVars, flowVars>>
    /\ w.pc = "write"
    /\ \E k \in (Len(tmp.data) + 1)..Len(Serialize(w.data)) :
          /\ tmp' = File(SubSeq(Serialize(w.data), 1, k))
          /\ IF w.phase = "primary"
             THEN primary' = File(SubSeq(Serialize(w.data), 1, k)) /\ backup' = backup
             ELSE backup' = File(SubSeq(Serialize(w.data), 1, k)) /\ primary' = primary
          /\ w' = [w EXCEPT !.pc = IF k = Len(Serialize(w.data))
                                    THEN "sync" ELSE "write"]
    /\ UNCHANGED <<cache, last, intr, recovered>>

\* fs.writeFileSync(fd, contents): the bytes reach the temp file in one or
\* several chunks
WriteTmp ==
    /\ UNCHANGED <<lifeVars, pushVars, flowVars>>
    /\ w.pc = "write"
    /\ \E k \in (Len(tmp.data) + 1)..Len(Serialize(w.data)) :
          /\ tmp' = File(SubSeq(Serialize(w.data), 1, k))
          /\ w' = [w EXCEPT !.pc = IF k = Len(Serialize(w.data))
                                    THEN "sync" ELSE "write"]
    /\ UNCHANGED <<primary, backup, cache, last, intr, recovered>>

\* fs.fsyncSync(fd), fs.closeSync(fd)
SyncTmp ==
    /\ UNCHANGED <<lifeVars, pushVars, flowVars>>
    /\ w.pc = "sync"
    /\ w' = [w EXCEPT !.pc = "rename"]
    /\ UNCHANGED <<primary, backup, tmp, cache, last, intr, recovered>>

\* mutant: the second atomicWriteFileSync leaves the backup as it was
RenameTmpPrimaryOnly ==
    /\ UNCHANGED <<lifeVars, pushVars, flowVars>>
    /\ w.pc = "rename"
    /\ tmp' = NoFile
    /\ IF w.phase = "primary"
       THEN /\ primary' = tmp
            /\ w' = [w EXCEPT !.pc = "open", !.phase = "backup"]
            /\ UNCHANGED <<backup, cache, last, intr, recovered>>
       ELSE /\ backup' = backup
            /\ Return(TRUE)
            /\ UNCHANGED <<primary, intr>>

\* fs.renameSync(tmpPath, targetPath), then the best-effort directory fsync
RenameTmp ==
    /\ UNCHANGED <<lifeVars, pushVars, flowVars>>
    /\ w.pc = "rename"
    /\ tmp' = NoFile
    /\ IF w.phase = "primary"
       THEN /\ primary' = tmp
            /\ w' = [w EXCEPT !.pc = "open", !.phase = "backup"]
            /\ UNCHANGED <<backup, cache, last, intr, recovered>>
       ELSE /\ backup' = tmp
            /\ Return(TRUE)
            /\ UNCHANGED <<primary, intr>>

atomicWriteFileSync == OpenTmp \/ WriteTmp \/ SyncTmp \/ RenameTmp

\* the fs call of the current step throws (an I/O error): in the primary
\* phase writeFile throws, in the backup phase the error is swallowed
IOError ==
    /\ UNCHANGED <<lifeVars, pushVars, flowVars>>
    /\ w.pc # "idle"
    /\ intr' = [active |-> TRUE, at |-> w.pc, phase |-> w.phase, p0 |-> w.p0,
                data |-> w.data]
    /\ Return(w.phase = "backup")
    /\ UNCHANGED <<primary, backup, tmp>>

\* the process dies and a fresh one starts: the cache is gone, the files stay
Crash ==
    /\ UNCHANGED <<lifeVars, pushVars, flowVars>>
    /\ cache' = NoCache
    /\ w' = Idle
    /\ recovered' = NoRecovery
    /\ last' = NoCall
    /\ intr' = IF w.pc # "idle"
               THEN [active |-> TRUE, at |-> w.pc, phase |-> w.phase, p0 |-> w.p0,
                     data |-> w.data]
               ELSE intr
    /\ UNCHANGED <<primary, backup, tmp>>

\* write(list) of a handler; handlers read the collection first
writeFile ==
    /\ UNCHANGED <<lifeVars, pushVars, flowVars>>
    /\ w.pc = "idle"
    /\ cache.set
    /\ \E data \in Lists : BeginWrite("write", data)
    /\ UNCHANGED <<primary, backup, tmp, cache, last, recovered>>

----------------------------------------------------------------------------
(* readFile *)

\* if (cache !== null) return cache
ReadCached ==
    /\ UNCHANGED <<lifeVars, pushVars, flowVars>>
    /\ w.pc = "idle"
    /\ cache.set
    /\ last' = [op |-> "read", status |-> "ok", val |-> cache.val, fresh |-> FALSE,
                p0 |-> NoFile, b0 |-> NoFile]
    /\ UNCHANGED <<primary, backup, tmp, cache, w, intr, recovered>>

\* if (!fs.existsSync(filePath)) { writeFile(filePath, seed, setCache); return seed }
ReadAbsent ==
    /\ UNCHANGED <<lifeVars, pushVars, flowVars>>
    /\ w.pc = "idle"
    /\ ~cache.set
    /\ ~primary.exists
    /\ BeginWrite("seed", seed)
    /\ UNCHANGED <<primary, backup, tmp, cache, last, recovered>>

\* the try block: the primary parses to an array, which is cached and returned
ReadPrimary ==
    /\ UNCHANGED <<lifeVars, pushVars, flowVars>>
    /\ w.pc = "idle"
    /\ ~cache.set
    /\ primary.exists
    /\ Loadable(primary)
    /\ cache' = [set |-> TRUE, val |-> Loaded(primary)]
    /\ last' = [op |-> "read", status |-> "ok", val |-> Loaded(primary),
                fresh |-> TRUE, p0 |-> primary, b0 |-> backup]
    /\ UNCHANGED <<primary, backup, tmp, w, intr, recovered>>

\* the catch block with a usable backup: restore the primary from it
ReadBackup ==
    /\ UNCHANGED <<lifeVars, pushVars, flowVars>>
    /\ w.pc = "idle"
    /\ ~cache.set
    /\ primary.exists
    /\ ~Loadable(primary)
    /\ Loadable(backup)
    /\ BeginWrite("restore", Loaded(backup))
    /\ UNCHANGED <<primary, backup, tmp, cache, last, recovered>>

\* mutant: without a usable backup the store starts over from the seed
ReadCorruptSeeds ==
    /\ UNCHANGED <<lifeVars, pushVars, flowVars>>
    /\ w.pc = "idle"
    /\ ~cache.set
    /\ primary.exists
    /\ ~Loadable(primary)
    /\ ~Loadable(backup)
    /\ BeginWrite("seed", seed)
    /\ UNCHANGED <<primary, backup, tmp, cache, last, recovered>>

\* the catch block without a usable backup: throw new Error(`Invalid content ...`)
ReadCorrupt ==
    /\ UNCHANGED <<lifeVars, pushVars, flowVars>>
    /\ w.pc = "idle"
    /\ ~cache.set
    /\ primary.exists
    /\ ~Loadable(primary)
    /\ ~Loadable(backup)
    /\ last' = [op |-> "read", status |-> "error", val |-> <<>>, fresh |-> TRUE,
                p0 |-> primary, b0 |-> backup]
    /\ UNCHANGED <<primary, backup, tmp, cache, w, intr, recovered>>

readFile == ReadCached \/ ReadAbsent \/ ReadPrimary \/ ReadBackup \/ ReadCorrupt

StoreNext ==
    \/ readFile
    \/ writeFile
    \/ atomicWriteFileSync
    \/ IOError
    \/ Crash

SpecStore == StoreInit /\ [][StoreNext]_vars

----------------------------------------------------------------------------
(* Properties of the store *)

\* the text is a JSON array (JSON.parse succeeds and Array.isArray holds)
IsJsonList(raw) == JSONparse(raw).ok /\ JSONparse(raw).isArray

\* the file exists, is not blank, and is unparsable or not a list
Broken(f) == f.exists /\ ~IsBlank(f.data) /\ ~IsJsonList(f.data)

\* a write was cut short after its temp file was created and before the
\* rename over the primary
CutBeforeRename ==
    /\ intr.active
    /\ intr.phase = "primary"
    /\ intr.at \in {"write", "sync", "rename"}

\* C4 (atomicity of write): while a write is between the creation of its
\* temp file and the rename over the primary, and after it was cut short
\* there by a crash or an I/O error, the primary is byte for byte what it
\* was when the write began; a read by the fresh process then returns the
\* list that was stored before; and the primary only ever changes to the
\* complete serialization of the list being written.
C4_Atomicity ==
    /\ [](/\ (w.phase = "primary" /\ w.pc \in {"write", "sync", "rename"})
               => primary = w.p0
          /\ CutBeforeRename => primary = intr.p0
          /\ (CutBeforeRename /\ last.op = "read" /\ last.fresh
                /\ intr.p0.exists /\ IsJsonList(intr.p0.data))
               => (last.status = "ok" /\ last.val = JSONparse(intr.p0.data).val))
    /\ [][primary' # primary => primary' = File(Serialize(w.data))]_vars

\* C4 witness: a write of another list was cut short just before the rename,
\* leaving its temp file behind, and the fresh process has read the old list
C4_Witness ==
    /\ CutBeforeRename
    /\ intr.at = "rename"
    /\ tmp.exists
    /\ last.op = "read" /\ last.fresh /\ last.status = "ok"
    /\ last.val # <<>>
    /\ intr.data # last.val

\* the read that completed last missed the cache, found a primary that is
\* not a JSON list, and found a backup holding a JSON list
ReadWithBadPrimaryGoodBackup ==
    /\ last.op = "read" /\ last.fresh
    /\ last.p0.exists /\ ~IsJsonList(last.p0.data)
    /\ last.b0.exists /\ IsJsonList(last.b0.data)

\* after a recovery every read is served from the cache and returns the
\* recovered list
RecoveredStaysCached ==
    recovered.active =>
        /\ cache = [set |-> TRUE, val |-> recovered.val]
        /\ (last.op = "read" => (last.status = "ok" /\ last.val = recovered.val))

\* C5 as stated (backup recovery round-trip, blank primary included): a read
\* that finds a primary that is not a JSON list, an empty or whitespace-only
\* one included, and a backup holding a list L returns L, and later reads
\* return L from the cache.
C5_Original ==
    /\ ReadWithBadPrimaryGoodBackup
           => (last.status = "ok" /\ last.val = JSONparse(last.b0.data).val)
    /\ RecoveredStaysCached

\* C5 amended: as C5 for a primary that is not blank; a blank primary is
\* read as the empty seed list and the backup is not consulted.
C5_RecoveryRoundTrip ==
    /\ (ReadWithBadPrimaryGoodBackup /\ ~IsBlank(last.p0.data))
           => (last.status = "ok" /\ last.val = JSONparse(last.b0.data).val)
    /\ (last.op = "read" /\ last.fresh /\ last.p0.exists /\ IsBlank(last.p0.data))
           => (last.status = "ok" /\ last.val = seed)
    /\ RecoveredStaysCached

\* C5 witness: a recovery returned a non-empty list and a later read got the
\* same list from the cache
C5_Witness ==
    /\ recovered.active
    /\ recovered.val # <<>>
    /\ last.op = "read" /\ ~last.fresh
    /\ last.val = recovered.val

NoValidList(f) == ~f.exists \/ ~IsJsonList(f.data)

\* C7 as stated (no silent empty data): when the backup exists but is broken
\* and the primary holds no valid list (absent, empty, unparsable or not an
\* array), the read fails: it returns no empty list and writes no empty list
\* over the primary or the backup.
C7_Original ==
    (/\ last.op = "read" /\ last.fresh
     /\ last.b0.exists /\ ~IsJsonList(last.b0.data)
     /\ NoValidList(last.p0))
    => /\ last.status = "error"
       /\ primary.data # Serialize(seed)
       /\ backup.data # Serialize(seed)

\* C7 amended: the read fails, returns no empty list and writes no empty
\* list when the backup exists and is broken and the primary exists and is
\* broken (both non-blank and unparsable or not an array); an absent
\* primary is seeded with the empty list and a blank file is read as the
\* empty list.
C7_NoSilentEmptyData ==
    (/\ last.op = "read" /\ last.fresh
     /\ Broken(last.b0)
     /\ Broken(last.p0))
    => /\ ~(last.status = "ok" /\ last.val = seed)
       /\ last.status = "error"
       /\ primary.data # Serialize(seed)
       /\ backup.data # Serialize(seed)

\* C7 witness: a read failed with a broken backup next to a broken primary
C7_Witness ==
    /\ last.op = "read" /\ last.status = "error"
    /\ Broken(last.p0)
    /\ Broken(last.b0)
    /\ last.p0.data = <<"{", "}">>

----------------------------------------------------------------------------
(* Strings.  A string is the sequence of its characters, so that trim()    *)
(* and toLowerCase() are computed and not assumed.                         *)

ann == <<"a", "n", "n">>

bob == <<"b", "o", "b">>

cy == <<"c", "y">>

dan == <<"d", "a", "n">>

zed == <<"z", "e", "d">>          \* a name no user account carries

RECURSIVE trimStart(_)
trimStart(s) == IF s # <<>> /\ s[1] = " " THEN trimStart(Tail(s)) ELSE s

RECURSIVE trimEnd(_)
trimEnd(s) ==
    IF s # <<>> /\ s[Len(s)] = " " THEN trimEnd(SubSeq(s, 1, Len(s) - 1)) ELSE s

trim(s) == trimEnd(trimStart(s))

lowerChar(c) ==
    CASE c = "A" -> "a"
      [] c = "B" -> "b"
      [] c = "C" -> "c"
      [] c = "D" -> "d"
      [] c = "N" -> "n"
      [] c = "O" -> "o"
      [] c = "Y" -> "y"
      [] OTHER -> c

toLowerCase(s) == [k \in 1..Len(s) |-> lowerChar(s[k])]

includes(list, x) == \E k \in 1..Len(list) : list[k] = x

RECURSIVE concat(_)
concat(ss) == IF ss = <<>> THEN <<>> ELSE Head(ss) \o concat(Tail(ss))

----------------------------------------------------------------------------
(* Dates.  A date string is [valid, local, off]: a wall-clock minute and   *)
(* the UTC offset written in the string.  new Date(str).getTime() is the   *)
(* instant local - off; toISOString() writes the instant with offset 0.    *)

DateStr(local, off) == [valid |-> TRUE, local |-> local, off |-> off]

BadDate == [valid |-> FALSE, local |-> 0, off |-> 0]

isNaN(d) == ~d.valid

getTime(d) == d.local - d.off

toISOString(t) == DateStr(t, 0)

----------------------------------------------------------------------------
(* Users and their push subscriptions *)

Sub(e, k) == [endpoint |-> e, keys |-> k]

User(n, subs) == [name |-> n, pushSubscriptions |-> subs]

\* the accounts of the lifecycle model; cy has no subscription
LifeUsers ==
    << User(ann, <<Sub("e1", "k1")>>),
       User(bob, <<Sub("e2", "k1")>>),
       User(cy, <<>>),
       User(dan, <<Sub("e3", "k1")>>) >>

\* index of the account a cookie name designates, 0 when there is none
findUser(us, name) ==
    LET normalized == toLowerCase(trim(name))
        hits == {k \in 1..Len(us) : toLowerCase(us[k].name) = normalized}
    IN  IF hits = {} THEN 0 ELSE CHOOSE k \in hits : \A h \in hits : k <= h

\* the subscriptions a dispatch addresses; <<>> stands for a null argument
getAllSubscriptions(us, targetUser, excludedUsers) ==
    LET excluded(u) ==
            \E j \in 1..Len(excludedUsers) :
                /\ excludedUsers[j] # <<>>
                /\ toLowerCase(excludedUsers[j]) = toLowerCase(u.name)
        kept(u) ==
            /\ Len(u.pushSubscriptions) > 0
            /\ targetUser # <<>> => toLowerCase(u.name) = toLowerCase(targetUser)
            /\ ~excluded(u)
        entries(u) ==
            [j \in 1..Len(u.pushSubscriptions) |->
                [endpoint |-> u.pushSubscriptions[j].endpoint,
                 keys |-> u.pushSubscriptions[j].keys,
                 userName |-> u.name]]
    IN  concat([k \in 1..Len(us) |-> IF kept(us[k]) THEN entries(us[k]) ELSE <<>>])

\* one sendPushNotifications call: [targetUser, excludedUsers]
Call(targetUser, excludedUsers) == [target |-> targetUser, excluded |-> excludedUsers]

\* filter(Boolean) over a list of names
filterBoolean(names) == SelectSeq(names, LAMBDA n : n # <<>>)

\* mutant: the new session is announced to everyone (as version 1.1.1 did)
sendNewSessionNotificationAll(session) == << Call(<<>>, <<>>) >>

sendNewSessionNotification(session) ==
    << Call(<<>>, IF session.organizer # <<>> THEN <<session.organizer>> ELSE <<>>) >>

sendSpotAvailableNotification(session) == << Call(<<>>, <<>>) >>

\* mutant: only the organizer is told about a new participant
sendParticipantJoinedNotificationOrganizer(session) ==
    << Call(session.organizer, <<>>) >>

sendParticipantJoinedNotification(session) ==
    LET recipients == filterBoolean(<<session.organizer>> \o session.followers)
    IN  [k \in 1..Len(recipients) |-> Call(recipients[k], <<>>)]

sendParticipantLeftNotification(session) ==
    LET recipients == filterBoolean(<<session.organizer>> \o session.followers)
    IN  [k \in 1..Len(recipients) |-> Call(recipients[k], <<>>)]

sendSessionReminderNotification(session) ==
    LET recipients == filterBoolean(<<session.organizer>> \o session.participants)
    IN  [k \in 1..Len(recipients) |-> Call(recipients[k], <<>>)]

\* the endpoints the calls of one notification send to, in order
endpointsOf(us, calls) ==
    concat([k \in 1..Len(calls) |->
        LET subs == getAllSubscriptions(us, calls[k].target, calls[k].excluded)
        IN  [j \in 1..Len(subs) |-> subs[j].endpoint]])

\* notifyAndCleanup(notifFn, session): the call as the lifecycle model records it
notifyAndCleanup(fn, session, calls) ==
    [fn |-> fn, sid |-> session.id, to |-> endpointsOf(users, calls)]

----------------------------------------------------------------------------
(* Bounds and inputs of the lifecycle model *)

MaxNow == 75        \* the clock runs from 0 to MaxNow

MaxIds == 2         \* at most MaxIds sessions are ever created

TickSteps == {15}   \* the clock advances by one of these

MAX_SESSIONS == 16

REMINDER_MINUTES_BEFORE_START == 45

REMINDER_CHECK_INTERVAL == 1      \* REMINDER_CHECK_INTERVAL_MS, in minutes

GRACE_MINUTES == 5

MAX_DURATION == 300

MAX_CAPACITY == 12

MAX_NAME_LENGTH == 20

\* the names request cookies carry
Cookies == {ann, bob, cy, dan, zed}

ListCookies == {ann, <<" ", "B", "o", "b">>, zed}

SessionIds == 1..MaxIds

\* the id of the session created first
FirstIds == {1}

moyen == <<"m", "o", "y", "e", "n">>

allowedLevels ==
    { <<"d", "é", "b", "u", "t", "a", "n", "t">>,
      <<"d", "é", "b", "u", "t", "a", "n", "t", "/", "m", "o", "y", "e", "n">>,
      moyen,
      <<"c", "o", "n", "f", "i", "r", "m", "é">> }

\* readClubs()
clubs == << <<"A">> >>

\* prices are counted in thousandths
BasePayload ==
    [datetime |-> DateStr(45, 0), durationMinutes |-> 15, club |-> <<"A">>,
     level |-> moyen, capacity |-> 2, pricePerParticipant |-> 12345]

ValidDates == {DateStr(45, 0), DateStr(105, 60), DateStr(60, 0)}

ValidPayloads ==
    {[BasePayload EXCEPT !.datetime = d, !.capacity = c] :
        d \in ValidDates, c \in {1, 2, 3}}

InvalidPayloads ==
    { [BasePayload EXCEPT !.datetime = BadDate],
      [BasePayload EXCEPT !.durationMinutes = 301],
      [BasePayload EXCEPT !.club = <<" ">>],
      [BasePayload EXCEPT !.club = <<"Z">>],
      [BasePayload EXCEPT !.level = <<" ", "x">>],
      [BasePayload EXCEPT !.capacity = 13],
      [BasePayload EXCEPT !.pricePerParticipant = -1000],
      [BasePayload EXCEPT !.durationMinutes = 0, !.capacity = 0],
      [BasePayload EXCEPT !.capacity = 1, !.pricePerParticipant = -1000] }

Payloads ==
    ValidPayloads \cup InvalidPayloads
        \cup {[BasePayload EXCEPT !.club = <<" ", "A", " ">>, !.level = <<" ">> \o moyen]}

LongName == [k \in 1..21 |-> "x"]

ParticipantLists ==
    { <<>>, <<bob>>, <<bob, cy>>, <<bob, bob>>, <<bob, cy, dan>>,
      << <<" ", "c", "y", " ">> >>, << <<"A", "n", "n">> >>, << bob, <<" ">> >>,
      << LongName >> }

\* requests: ann organizes; a request the handler refuses before it reads
\* its payload is sent with one payload only
CreateInputs == ({ann} \X Payloads) \cup ({zed} \X {BasePayload})

EditInputs == ({ann} \X Payloads) \cup ((Cookies \ {ann}) \X {BasePayload})

UpdateInputs == ({ann} \X ParticipantLists) \cup ((Cookies \ {ann}) \X {<<>>})

----------------------------------------------------------------------------
(* Session predicates *)

\* mutant: a session is over as soon as its end is reached
sessionHasExpiredAtEnd(session, referenceDate) ==
    IF isNaN(session.datetime) THEN TRUE
    ELSE referenceDate >= getTime(session.datetime) + session.durationMinutes

sessionHasExpired(session, referenceDate) ==
    IF isNaN(session.datetime) THEN TRUE
    ELSE referenceDate > getTime(session.datetime) + session.durationMinutes

sessionHasStarted(session, referenceDate) ==
    IF isNaN(session.datetime) THEN TRUE
    ELSE referenceDate >= getTime(session.datetime)

\* index of the session with this id, 0 when there is none
findIndex(list, sessionId) ==
    LET hits == {k \in 1..Len(list) : list[k].id = sessionId}
    IN  IF hits = {} THEN 0 ELSE CHOOSE k \in hits : \A h \in hits : k <= h

\* Math.round(price * 100) / 100, on thousandths
roundedPrice(price) == ((price + 5) \div 10) * 10

NoFire == [n |-> 0, prior |-> FALSE, late |-> FALSE]

\* the reminder history of a session just created: late tells that no timer
\* callback falls strictly between its creation and its start
Armed(session, t) ==
    [NoFire EXCEPT !.late = getTime(session.datetime) - t <= REMINDER_CHECK_INTERVAL]

\* the reminder history once a session's datetime is set anew
Rearmed(f) == [f EXCEPT !.n = 0, !.prior = f.prior \/ f.n > 0]

\* handleJoinSession: no seat is left beside the organizer and the participants
joinFullLoose(session) == Len(session.participants) + 1 > session.capacity

joinFull(session) == Len(session.participants) + 1 >= session.capacity

\* handleUpdateParticipants: the new list does not fit
tooManyLoose(count, capacity) == count > capacity

\* mutant: the organizer's place is counted twice
tooManyStrict(count, capacity) == count + 1 >= capacity

tooMany(count, capacity) == count + 1 > capacity

\* handleLeaveSession / handleUpdateParticipants: full before the change
wasSessionFullNever(session) == FALSE

\* mutant: a session counts as full as long as it has a participant
wasSessionFullOccupied(session) == Len(session.participants) >= 1

wasSessionFull(session) == Len(session.participants) + 1 >= session.capacity

\* mutant: every accepted edit re-arms the reminder
rearmAlways(session, originalDatetime) == [session EXCEPT !.reminderSent = FALSE]

\* handleEditSession: a changed datetime re-arms the reminder
rearm(session, originalDatetime) ==
    IF session.datetime # originalDatetime
        THEN [session EXCEPT !.reminderSent = FALSE]
        ELSE session

\* checkUpcomingSessionReminders: the session gets its reminder in this scan
reminderDueAgain(session, t) ==
    /\ ~sessionHasStarted(session, t)
    /\ ~isNaN(session.datetime)
    /\ getTime(session.datetime) - t > 0
    /\ getTime(session.datetime) - t <= REMINDER_MINUTES_BEFORE_START

\* mutant: the lead window is open at its far end
reminderDueInside(session, t) ==
    /\ ~session.reminderSent
    /\ ~sessionHasStarted(session, t)
    /\ ~isNaN(session.datetime)
    /\ getTime(session.datetime) - t > 0
    /\ getTime(session.datetime) - t < REMINDER_MINUTES_BEFORE_START

reminderDue(session, t) ==
    /\ ~session.reminderSent
    /\ ~sessionHasStarted(session, t)
    /\ ~isNaN(session.datetime)
    /\ getTime(session.datetime) - t > 0
    /\ getTime(session.datetime) - t <= REMINDER_MINUTES_BEFORE_START

----------------------------------------------------------------------------
(* Request handlers.  Each handler awaits the request body first and then  *)
(* reads, checks, mutates and writes the session list without yielding, so *)
(* one handler is one step.  A handler is written twice: as the outcome it *)
(* computes from the state and the request (status, error message, new     *)
(* session list, notifications), and as the action that applies it.        *)
(* \E out \in {e} names the value of e.                                    *)

LifeInit ==
    /\ now = 0
    /\ sessions = <<>>
    /\ sessionsFile = <<>>
    /\ nextId = 1
    /\ resp = NoResp
    /\ notified = <<>>
    /\ fired = [k \in SessionIds |-> NoFire]
    /\ users = LifeUsers
    /\ usersFile = LifeUsers
    /\ disp = <<>>
    /\ StoreIdle
    /\ FlowIdle

\* sendJson(res, 200, ...) after the list l was written and the calls n made
sendJson(l, f, n) ==
    [status |-> 200, error |-> "", sessions |-> l, fired |-> f, notified |-> n,
     wrote |-> TRUE]

\* mutant: a handler that answers with an error purges the list first
sendErrorPurging(status, message) ==
    [status |-> status, error |-> message,
     sessions |-> SelectSeq(sessions, LAMBDA session : ~sessionHasStarted(session, now)),
     fired |-> fired, notified |-> <<>>, wrote |-> TRUE]

\* sendError(res, status, message): nothing was changed
sendError(status, message) ==
    [status |-> status, error |-> message, sessions |-> sessions, fired |-> fired,
     notified |-> <<>>, wrote |-> FALSE]

\* the handler returns: its outcome becomes the state (requireAuth comes before
\* parseBody, so a 401 is sent without the session id being read)
Respond(op, sessionId, out) ==
    /\ sessions' = out.sessions
    /\ sessionsFile' = IF out.wrote THEN out.sessions ELSE sessionsFile
    /\ fired' = out.fired
    /\ notified' = out.notified
    /\ resp' = [op |-> op, sid |-> IF out.status = 401 THEN 0 ELSE sessionId,
                status |-> out.status, error |-> out.error, wrote |-> out.wrote]

\* the first validation of a create / edit payload that fails, "" when none does
payloadError(p, t) ==
    LET normalizedClub == trim(p.club)
        normalizedLevel == trim(p.level)
    IN  IF isNaN(p.datetime) THEN "Date/heure invalide"
        ELSE IF getTime(p.datetime) < t - GRACE_MINUTES
            THEN "La session doit être dans le futur"
        ELSE IF p.durationMinutes <= 0 \/ p.durationMinutes > MAX_DURATION
            THEN "Durée invalide"
        ELSE IF normalizedClub = <<>> THEN "Club invalide"
        ELSE IF Len(clubs) > 0 /\ ~includes(clubs, normalizedClub) THEN "Club inconnu"
        ELSE IF normalizedLevel = <<>> \/ normalizedLevel \notin allowedLevels
            THEN "Niveau invalide"
        ELSE IF p.capacity < 1 \/ p.capacity > MAX_CAPACITY THEN "Capacité invalide"
        ELSE ""

priceError(p) == IF p.pricePerParticipant < 0 THEN "Prix invalide" ELSE ""

\* mutant: the ceiling is tested after it was passed
limitReachedLate(list) == Len(list) > MAX_SESSIONS

\* sessions.length >= MAX_SESSIONS
limitReached(list) == Len(list) >= MAX_SESSIONS

createOutcome(cookie, p) ==
    LET u == findUser(users, cookie) IN
    IF u = 0 THEN sendError(401, "Authentification requise")
    ELSE IF payloadError(p, now) # "" THEN sendError(400, payloadError(p, now))
    ELSE IF priceError(p) # "" THEN sendError(400, priceError(p))
    ELSE IF limitReached(sessions)
        THEN sendError(400, "Limite de sessions atteinte (16 maximum)")
    ELSE
        LET session ==
                [id |-> nextId,
                 datetime |-> toISOString(getTime(p.datetime)),
                 durationMinutes |-> p.durationMinutes,
                 club |-> trim(p.club),
                 level |-> trim(p.level),
                 capacity |-> p.capacity,
                 pricePerParticipant |-> roundedPrice(p.pricePerParticipant),
                 organizer |-> users[u].name,
                 participants |-> <<>>,
                 followers |-> <<>>,
                 messages |-> <<>>,
                 reminderSent |-> FALSE]
        IN  sendJson(Append(sessions, session),
                     [fired EXCEPT ![nextId] = Armed(session, now)],
                     <<notifyAndCleanup("newSession", session,
                           sendNewSessionNotification(session))>>)

handleCreateSession(cookie, p) ==
    /\ UNCHANGED <<storeVars, pushVars, flowVars>>
    /\ nextId \in DOMAIN fired
    /\ \E out \in {createOutcome(cookie, p)} :
         /\ Respond("create", IF out.status = 200 THEN nextId ELSE 0, out)
         /\ nextId' = IF out.status = 200 THEN nextId + 1 ELSE nextId
    /\ UNCHANGED now

\* mutant: a session that has started can no longer be deleted
deleteOutcomeBeforeStart(cookie, sessionId) ==
    LET u == findUser(users, cookie)
        index == findIndex(sessions, sessionId)
    IN
    IF u = 0 THEN sendError(401, "Authentification requise")
    ELSE IF index = 0 THEN sendError(404, "Session introuvable")
    ELSE IF sessions[index].organizer # users[u].name
        THEN sendError(403, "Seul l'organisateur peut supprimer la session")
    ELSE IF sessionHasStarted(sessions[index], now)
        THEN sendError(400, "La session est déjà commencée")
    ELSE sendJson(SubSeq(sessions, 1, index - 1)
                      \o SubSeq(sessions, index + 1, Len(sessions)),
                  [fired EXCEPT ![sessionId] = NoFire],
                  <<>>)

deleteOutcome(cookie, sessionId) ==
    LET u == findUser(users, cookie)
        index == findIndex(sessions, sessionId)
    IN
    IF u = 0 THEN sendError(401, "Authentification requise")
    ELSE IF index = 0 THEN sendError(404, "Session introuvable")
    ELSE IF sessions[index].organizer # users[u].name
        THEN sendError(403, "Seul l'organisateur peut supprimer la session")
    ELSE sendJson(SubSeq(sessions, 1, index - 1)
                      \o SubSeq(sessions, index + 1, Len(sessions)),
                  [fired EXCEPT ![sessionId] = NoFire],
                  <<>>)

handleDeleteSession(cookie, sessionId) ==
    /\ UNCHANGED <<storeVars, pushVars, flowVars>>
    /\ \E out \in {deleteOutcome(cookie, sessionId)} : Respond("delete", sessionId, out)
    /\ UNCHANGED <<now, nextId>>

joinOutcome(cookie, sessionId) ==
    LET u == findUser(users, cookie)
        index == findIndex(sessions, sessionId)
    IN
    IF u = 0 THEN sendError(401, "Authentification requise")
    ELSE IF index = 0 THEN sendError(404, "Session introuvable")
    ELSE LET session == sessions[index]
             user == users[u].name
         IN
    IF sessionHasStarted(session, now)
        THEN sendError(400, "La session est déjà commencée")
    ELSE IF session.organizer = user THEN sendError(400, "Organisateur déjà inscrit")
    ELSE IF includes(session.participants, user)
        THEN sendError(400, "Utilisateur déjà inscrit")
    ELSE IF joinFull(session) THEN sendError(400, "Session complète")
    ELSE
        LET joined == [session EXCEPT !.participants = Append(@, user)]
        IN  sendJson([sessions EXCEPT ![index] = joined],
                     fired,
                     <<notifyAndCleanup("participantJoined", joined,
                           sendParticipantJoinedNotification(joined))>>)

handleJoinSession(cookie, sessionId) ==
    /\ UNCHANGED <<storeVars, pushVars, flowVars>>
    /\ \E out \in {joinOutcome(cookie, sessionId)} : Respond("join", sessionId, out)
    /\ UNCHANGED <<now, nextId>>

leaveOutcome(cookie, sessionId) ==
    LET u == findUser(users, cookie)
        index == findIndex(sessions, sessionId)
    IN
    IF u = 0 THEN sendError(401, "Authentification requise")
    ELSE IF index = 0 THEN sendError(404, "Session introuvable")
    ELSE LET session == sessions[index]
             user == users[u].name
         IN
    IF session.organizer = user
        THEN sendError(400, "L'organisateur ne peut se désinscrire")
    ELSE IF ~includes(session.participants, user)
        THEN sendError(400, "Utilisateur non inscrit")
    ELSE IF sessionHasStarted(session, now)
        THEN sendError(400, "La session est déjà commencée")
    ELSE
        LET left == [session EXCEPT
                        !.participants = SelectSeq(@, LAMBDA name : name # user)]
        IN  sendJson([sessions EXCEPT ![index] = left],
                     fired,
                     <<notifyAndCleanup("participantLeft", left,
                           sendParticipantLeftNotification(left))>>
                     \o (IF wasSessionFull(session)
                           THEN <<notifyAndCleanup("spotAvailable", left,
                                      sendSpotAvailableNotification(left))>>
                           ELSE <<>>))

handleLeaveSession(cookie, sessionId) ==
    /\ UNCHANGED <<storeVars, pushVars, flowVars>>
    /\ \E out \in {leaveOutcome(cookie, sessionId)} : Respond("leave", sessionId, out)
    /\ UNCHANGED <<now, nextId>>

\* mutant: a name is compared with the organizer's as it is written
RECURSIVE participantErrorExact(_, _)
participantErrorExact(names, organizer) ==
    IF names = <<>> THEN ""
    ELSE LET trimmed == trim(Head(names)) IN
         IF Len(trimmed) = 0 \/ Len(trimmed) > MAX_NAME_LENGTH
            THEN "Nom de participant invalide (1-20 caractères)"
         ELSE IF trimmed = organizer
            THEN "L'organisateur ne peut pas être ajouté comme participant"
         ELSE participantErrorExact(Tail(names), organizer)

\* the first name of the list the handler refuses, "" when it accepts them all
RECURSIVE participantError(_, _)
participantError(names, organizer) ==
    IF names = <<>> THEN ""
    ELSE LET trimmed == trim(Head(names)) IN
         IF Len(trimmed) = 0 \/ Len(trimmed) > MAX_NAME_LENGTH
            THEN "Nom de participant invalide (1-20 caractères)"
         ELSE IF toLowerCase(trimmed) = toLowerCase(organizer)
            THEN "L'organisateur ne peut pas être ajouté comme participant"
         ELSE participantError(Tail(names), organizer)

updateOutcome(cookie, sessionId, participants) ==
    LET u == findUser(users, cookie)
        index == findIndex(sessions, sessionId)
    IN
    IF u = 0 THEN sendError(401, "Authentification requise")
    ELSE IF index = 0 THEN sendError(404, "Session introuvable")
    ELSE LET session == sessions[index]
             user == users[u].name
             normalizedParticipants ==
                 [k \in 1..Len(participants) |-> trim(participants[k])]
             updated == [session EXCEPT !.participants = normalizedParticipants]
         IN
    IF session.organizer # user
        THEN sendError(403, "Seul l'organisateur peut modifier les participants")
    ELSE IF sessionHasStarted(session, now)
        THEN sendError(400, "La session est déjà commencée")
    ELSE IF participantError(participants, session.organizer) # ""
        THEN sendError(400, participantError(participants, session.organizer))
    ELSE IF tooMany(Len(normalizedParticipants), session.capacity)
        THEN sendError(400, "Trop de participants pour la capacité de la session")
    ELSE sendJson([sessions EXCEPT ![index] = updated],
                  fired,
                  IF /\ wasSessionFull(session)
                     /\ Len(normalizedParticipants) + 1 < session.capacity
                    THEN <<notifyAndCleanup("spotAvailable", updated,
                               sendSpotAvailableNotification(updated))>>
                    ELSE <<>>)

handleUpdateParticipants(cookie, sessionId, participants) ==
    /\ UNCHANGED <<storeVars, pushVars, flowVars>>
    /\ \E out \in {updateOutcome(cookie, sessionId, participants)} : Respond("update", sessionId, out)
    /\ UNCHANGED <<now, nextId>>

editOutcome(cookie, sessionId, p) ==
    LET u == findUser(users, cookie)
        index == findIndex(sessions, sessionId)
    IN
    IF u = 0 THEN sendError(401, "Authentification requise")
    ELSE IF index = 0 THEN sendError(404, "Session introuvable")
    ELSE LET session == sessions[index]
             user == users[u].name
             edited ==
                 rearm([session EXCEPT
                           !.datetime = toISOString(getTime(p.datetime)),
                           !.durationMinutes = p.durationMinutes,
                           !.club = trim(p.club),
                           !.level = trim(p.level),
                           !.capacity = p.capacity,
                           !.pricePerParticipant = roundedPrice(p.pricePerParticipant)],
                       session.datetime)
         IN
    IF session.organizer # user
        THEN sendError(403, "Seul l'organisateur peut modifier la session")
    ELSE IF sessionHasStarted(session, now)
        THEN sendError(400, "La session est déjà commencée")
    ELSE IF payloadError(p, now) # "" THEN sendError(400, payloadError(p, now))
    ELSE IF p.capacity < Len(session.participants) + 1
        THEN sendError(400,
                 "La capacité ne peut être inférieure au nombre actuel de participants")
    ELSE IF priceError(p) # "" THEN sendError(400, priceError(p))
    ELSE sendJson([sessions EXCEPT ![index] = edited],
                  IF edited.datetime # session.datetime
                    THEN [fired EXCEPT ![sessionId] = Rearmed(@)]
                    ELSE fired,
                  <<>>)

handleEditSession(cookie, sessionId, p) ==
    /\ UNCHANGED <<storeVars, pushVars, flowVars>>
    /\ \E out \in {editOutcome(cookie, sessionId, p)} : Respond("edit", sessionId, out)
    /\ UNCHANGED <<now, nextId>>

\* purgeExpiredSessions: the list without the sessions that are over
purgeExpiredSessions(list, t) ==
    SelectSeq(list, LAMBDA session : ~sessionHasExpired(session, t))

listOutcome(cookie) ==
    LET u == findUser(users, cookie)
        remaining == purgeExpiredSessions(sessions, now)
    IN
    IF u = 0 THEN sendError(401, "Authentification requise")
    ELSE [sendJson(remaining,
                   [k \in DOMAIN fired |->
                       IF findIndex(remaining, k) = 0 THEN NoFire ELSE fired[k]],
                   <<>>)
          EXCEPT !.wrote = Len(remaining) # Len(sessions)]

handleListSessions(cookie) ==
    /\ UNCHANGED <<storeVars, pushVars, flowVars>>
    /\ \E out \in {listOutcome(cookie)} : Respond("list", 0, out)
    /\ UNCHANGED <<now, nextId>>

\* the timer callback: one pass over the sessions, then one write
scanAt(t) ==
    LET due(k) == reminderDue(sessions[k], t)
        dueIndexes == SelectSeq([k \in 1..Len(sessions) |-> k], due)
        flagged(k) == [sessions[k] EXCEPT !.reminderSent = TRUE]
    IN  [status |-> 0,
         error |-> "",
         sessions |-> [k \in 1..Len(sessions) |->
                          IF due(k) THEN flagged(k) ELSE sessions[k]],
         fired |-> [id \in SessionIds |->
                      IF \E k \in 1..Len(sessions) : sessions[k].id = id /\ due(k)
                        THEN [fired[id] EXCEPT !.n = @ + 1]
                        ELSE fired[id]],
         notified |-> [j \in 1..Len(dueIndexes) |->
                         notifyAndCleanup("reminder", flagged(dueIndexes[j]),
                             sendSessionReminderNotification(flagged(dueIndexes[j])))],
         wrote |-> dueIndexes # <<>>]

scanOutcome == scanAt(now)

checkUpcomingSessionReminders ==
    /\ UNCHANGED <<storeVars, pushVars, flowVars>>
    /\ \E out \in {scanOutcome} : Respond("scan", 0, out)
    /\ UNCHANGED <<now, nextId>>

\* time passes
Tick ==
    /\ UNCHANGED <<storeVars, pushVars, flowVars>>
    /\ \E step \in TickSteps :
         /\ now + step <= MaxNow
         /\ now' = now + step
    /\ resp' = [op |-> "tick", sid |-> 0, status |-> 0, error |-> "", wrote |-> FALSE]
    /\ notified' = <<>>
    /\ UNCHANGED <<sessions, sessionsFile, nextId, fired>>

\* mutant: the interval elapses and no callback runs
IntervalSilent ==
    /\ UNCHANGED <<storeVars, pushVars, flowVars>>
    /\ now + REMINDER_CHECK_INTERVAL <= MaxNow
    /\ now' = now + REMINDER_CHECK_INTERVAL
    /\ resp' = [op |-> "tick", sid |-> 0, status |-> 0, error |-> "", wrote |-> FALSE]
    /\ notified' = <<>>
    /\ UNCHANGED <<sessions, sessionsFile, nextId, fired>>

\* setInterval(checkUpcomingSessionReminders, REMINDER_CHECK_INTERVAL_MS): the
\* clock reaches the next multiple of the interval and the callback runs
IntervalFires ==
    /\ UNCHANGED <<storeVars, pushVars, flowVars>>
    /\ now + REMINDER_CHECK_INTERVAL <= MaxNow
    /\ now' = now + REMINDER_CHECK_INTERVAL
    /\ \E out \in {scanAt(now + REMINDER_CHECK_INTERVAL)} : Respond("scan", 0, out)
    /\ UNCHANGED nextId

\* Spec follows one session, from its creation to its deletion or purge
CreateFirst(cookie, p) == nextId = 1 /\ handleCreateSession(cookie, p)

Next ==
    \/ \E in \in CreateInputs : CreateFirst(in[1], in[2])
    \/ \E cookie \in Cookies, sessionId \in SessionIds :
           handleDeleteSession(cookie, sessionId)
    \/ \E cookie \in Cookies, sessionId \in SessionIds :
           handleJoinSession(cookie, sessionId)
    \/ \E cookie \in Cookies, sessionId \in SessionIds :
           handleLeaveSession(cookie, sessionId)
    \/ \E in \in UpdateInputs, sessionId \in SessionIds :
           handleUpdateParticipants(in[1], sessionId, in[2])
    \/ \E in \in EditInputs, sessionId \in SessionIds :
           handleEditSession(in[1], sessionId, in[2])
    \/ \E cookie \in ListCookies : handleListSessions(cookie)
    \/ checkUpcomingSessionReminders
    \/ Tick

Spec == LifeInit /\ [][Next]_vars

\* SpecPairs follows the sessions side by side: creation, edition, deletion,
\* listing and the clock
NextPairs ==
    \/ \E in \in CreateInputs : handleCreateSession(in[1], in[2])
    \/ \E in \in EditInputs, sessionId \in SessionIds :
           handleEditSession(in[1], sessionId, in[2])
    \/ \E cookie \in Cookies, sessionId \in SessionIds :
           handleDeleteSession(cookie, sessionId)
    \/ \E cookie \in ListCookies : handleListSessions(cookie)
    \/ Tick

SpecPairs == LifeInit /\ [][NextPairs]_vars

\* SpecScan follows one session under the periodic scheduler: the clock moves
\* only with the timer, one interval at a time, and requests are served in
\* between
ScanCreateInputs ==
    {<<ann, [BasePayload EXCEPT !.datetime = d]>> :
        d \in {DateStr(45, 0), DateStr(50, 0), DateStr(2, 0)}}

NextScan ==
    \/ \E in \in ScanCreateInputs : CreateFirst(in[1], in[2])
    \/ \E cookie \in {ann, bob}, sessionId \in FirstIds :
           handleDeleteSession(cookie, sessionId)
    \/ \E cookie \in {ann} : handleListSessions(cookie)
    \/ IntervalFires

SpecScan == LifeInit /\ [][NextScan]_vars


----------------------------------------------------------------------------
(* Followers and the session chat *)

MAX_MESSAGES_PER_SESSION == 50

MAX_TEXT_LENGTH == 500

MaxMessages == 1    \* messages sent to one session

hi == <<"h", "i">>

LongText == [k \in 1..501 |-> "x"]

\* payload.text: <<>> stands for a missing text
Texts4Chat == {hi, <<" ", "h", "i", " ">>, <<" ">>, <<>>, LongText}

SocialCookies == {ann, bob, cy}

\* [...new Set(recipients)]: the first occurrence of every name, in order
RECURSIVE unique(_)
unique(names) ==
    IF names = <<>> THEN <<>>
    ELSE LET rest == unique(SubSeq(names, 1, Len(names) - 1))
             x == names[Len(names)]
         IN  IF includes(rest, x) THEN rest ELSE Append(rest, x)

sendChatMessageNotification(session, message) ==
    LET recipients ==
            SelectSeq(<<session.organizer>> \o session.participants \o session.followers,
                      LAMBDA name : name # <<>> /\ name # message.sender)
        uniqueRecipients == unique(recipients)
    IN  [k \in 1..Len(uniqueRecipients) |-> Call(uniqueRecipients[k], <<>>)]

\* mutant: the history keeps its oldest messages
lastMessagesOldest(messages) ==
    IF Len(messages) > MAX_MESSAGES_PER_SESSION
        THEN SubSeq(messages, 1, MAX_MESSAGES_PER_SESSION)
        ELSE messages

\* session.messages.slice(-MAX_MESSAGES_PER_SESSION)
lastMessages(messages) ==
    IF Len(messages) > MAX_MESSAGES_PER_SESSION
        THEN SubSeq(messages, Len(messages) - MAX_MESSAGES_PER_SESSION + 1, Len(messages))
        ELSE messages

\* crypto.randomUUID(): an id no stored message of the session carries
freshMessageId(messages) ==
    1 + Len(messages) + Cardinality({k \in 1..Len(messages) : messages[k].id > Len(messages)})

\* mutant: a user who follows a session may follow it again
followOutcomeAgain(cookie, sessionId) ==
    LET u == findUser(users, cookie)
        index == findIndex(sessions, sessionId)
    IN
    IF u = 0 THEN sendError(401, "Authentification requise")
    ELSE IF index = 0 THEN sendError(404, "Session introuvable")
    ELSE LET session == sessions[index]
             user == users[u].name
         IN
    IF session.organizer = user
        THEN sendError(400, "L'organisateur ne peut pas suivre sa propre session")
    ELSE sendJson([sessions EXCEPT ![index].followers = Append(@, user)], fired, <<>>)

followOutcome(cookie, sessionId) ==
    LET u == findUser(users, cookie)
        index == findIndex(sessions, sessionId)
    IN
    IF u = 0 THEN sendError(401, "Authentification requise")
    ELSE IF index = 0 THEN sendError(404, "Session introuvable")
    ELSE LET session == sessions[index]
             user == users[u].name
         IN
    IF session.organizer = user
        THEN sendError(400, "L'organisateur ne peut pas suivre sa propre session")
    ELSE IF includes(session.followers, user)
        THEN sendError(400, "Vous suivez déjà cette session")
    ELSE sendJson([sessions EXCEPT ![index].followers = Append(@, user)], fired, <<>>)

handleFollowSession(cookie, sessionId) ==
    /\ UNCHANGED <<storeVars, pushVars, flowVars>>
    /\ \E out \in {followOutcome(cookie, sessionId)} : Respond("follow", sessionId, out)
    /\ UNCHANGED <<now, nextId>>

\* handleUnfollowSession on the collection readSessions() returns
unfollowIn(list, cookie, sessionId) ==
    LET u == findUser(users, cookie)
        index == findIndex(list, sessionId)
    IN
    IF u = 0 THEN sendError(401, "Authentification requise")
    ELSE IF index = 0 THEN sendError(404, "Session introuvable")
    ELSE LET session == list[index]
             user == users[u].name
         IN
    IF ~includes(session.followers, user)
        THEN sendError(400, "Vous ne suivez pas cette session")
    ELSE sendJson([list EXCEPT ![index].followers =
                       SelectSeq(@, LAMBDA name : name # user)],
                  fired, <<>>)

unfollowOutcome(cookie, sessionId) == unfollowIn(sessions, cookie, sessionId)

handleUnfollowSession(cookie, sessionId) ==
    /\ UNCHANGED <<storeVars, pushVars, flowVars>>
    /\ \E out \in {unfollowOutcome(cookie, sessionId)} : Respond("unfollow", sessionId, out)
    /\ UNCHANGED <<now, nextId>>

sendMessageOutcome(cookie, sessionId, text) ==
    LET u == findUser(users, cookie)
        index == findIndex(sessions, sessionId)
    IN
    IF u = 0 THEN sendError(401, "Authentification requise")
    ELSE IF index = 0 THEN sendError(404, "Session introuvable")
    ELSE LET session == sessions[index]
             user == users[u].name
             isOrganizer == session.organizer = user
             isParticipant == includes(session.participants, user)
             isFollower == includes(session.followers, user)
             message == [id |-> freshMessageId(session.messages), sender |-> user,
                         text |-> trim(text), timestamp |-> toISOString(now)]
             sent == [session EXCEPT !.messages = lastMessages(Append(@, message))]
         IN
    IF sessionHasStarted(session, now)
        THEN sendError(400, "La session est déjà commencée")
    ELSE IF ~isOrganizer /\ ~isParticipant /\ ~isFollower
        THEN sendError(403,
                 "Vous devez être participant ou intéressé pour envoyer un message")
    ELSE IF text = <<>> THEN sendError(400, "Message manquant")
    ELSE IF Len(trim(text)) = 0 THEN sendError(400, "Le message ne peut pas être vide")
    ELSE IF Len(trim(text)) > MAX_TEXT_LENGTH
        THEN sendError(400, "Le message ne peut pas dépasser 500 caractères")
    ELSE sendJson([sessions EXCEPT ![index] = sent],
                  fired,
                  <<notifyAndCleanup("chatMessage", sent,
                        sendChatMessageNotification(sent, message))>>)

handleSendMessage(cookie, sessionId, text) ==
    /\ UNCHANGED <<storeVars, pushVars, flowVars>>
    /\ \E out \in {sendMessageOutcome(cookie, sessionId, text)} :
         Respond("sendMessage", sessionId, out)
    /\ UNCHANGED <<now, nextId>>

\* SpecSocial follows one session with its participants, followers and chat
SocialCreateInputs ==
    {<<ann, [BasePayload EXCEPT !.datetime = d, !.capacity = 3]>> :
        d \in {DateStr(45, 0), DateStr(30, 0)}}

NextSocial ==
    \/ \E in \in SocialCreateInputs : CreateFirst(in[1], in[2])
    \/ \E cookie \in SocialCookies, sessionId \in FirstIds :
           handleJoinSession(cookie, sessionId)
    \/ \E cookie \in SocialCookies, sessionId \in FirstIds :
           handleFollowSession(cookie, sessionId)
    \/ \E cookie \in SocialCookies, sessionId \in FirstIds :
           handleUnfollowSession(cookie, sessionId)
    \/ \E cookie \in SocialCookies, sessionId \in FirstIds, text \in Texts4Chat :
           /\ \A k \in 1..Len(sessions) : Len(sessions[k].messages) < MaxMessages
           /\ handleSendMessage(cookie, sessionId, text)
    \/ \E cookie \in SocialCookies, sessionId \in FirstIds :
           handleDeleteSession(cookie, sessionId)
    \/ Tick

SpecSocial == LifeInit /\ [][NextSocial]_vars

----------------------------------------------------------------------------
(* SpecRoster follows the participants and the followers of one session    *)
(* under join, leave, updateParticipants, follow and unfollow, while the   *)
(* clock passes its start.                                                 *)

Ann == <<"A", "n", "n">>    \* ann's cookie as another client spells it

RosterCookies == {ann, Ann, bob, cy}

RosterCreateInputs ==
    {<<ann, [BasePayload EXCEPT !.datetime = DateStr(30, 0), !.capacity = c]>> :
        c \in {2, 3}}

RosterUpdateInputs ==
    ({ann} \X { <<>>, <<bob>>, <<bob, cy>>, <<bob, bob>>, <<Ann>>,
                << <<" ", "c", "y", " ">> >>, << <<"B", "o", "b">> >> })
        \cup {<<bob, <<>> >>}

NextRoster ==
    \/ \E in \in RosterCreateInputs : CreateFirst(in[1], in[2])
    \/ \E cookie \in RosterCookies, sessionId \in FirstIds :
           handleJoinSession(cookie, sessionId)
    \/ \E cookie \in RosterCookies, sessionId \in FirstIds :
           handleLeaveSession(cookie, sessionId)
    \/ \E in \in RosterUpdateInputs, sessionId \in FirstIds :
           handleUpdateParticipants(in[1], sessionId, in[2])
    \/ \E cookie \in RosterCookies, sessionId \in FirstIds :
           handleFollowSession(cookie, sessionId)
    \/ \E cookie \in RosterCookies, sessionId \in FirstIds :
           handleUnfollowSession(cookie, sessionId)
    \/ Tick

SpecRoster == LifeInit /\ [][NextRoster]_vars

----------------------------------------------------------------------------
(* SpecCeiling fills the session list up to the ceiling: ann creates       *)
(* sessions for minute 45, deletes the oldest one, lists (which purges     *)
(* what is over) and, once the list is nearly full, also creates sessions  *)
(* for minute 90, while the clock runs.                                    *)

MaxCreated == 18    \* at most MaxCreated sessions are ever created

LatePayload == [BasePayload EXCEPT !.datetime = DateStr(90, 0)]

CeilingCreateInputs ==
    {<<ann, BasePayload>>, <<ann, [BasePayload EXCEPT !.capacity = 13]>>}

CeilingInit ==
    /\ now = 0
    /\ sessions = <<>>
    /\ sessionsFile = <<>>
    /\ nextId = 1
    /\ resp = NoResp
    /\ notified = <<>>
    /\ fired = [k \in 1..MaxCreated |-> NoFire]
    /\ users = LifeUsers
    /\ usersFile = LifeUsers
    /\ disp = <<>>
    /\ StoreIdle
    /\ FlowIdle

NextCeiling ==
    \/ \E in \in CeilingCreateInputs : handleCreateSession(in[1], in[2])
    \/ Len(sessions) >= MAX_SESSIONS - 1 /\ handleCreateSession(ann, LatePayload)
    \/ sessions # <<>> /\ handleDeleteSession(ann, sessions[1].id)
    \/ handleListSessions(ann)
    \/ Tick

SpecCeiling == CeilingInit /\ [][NextCeiling]_vars

----------------------------------------------------------------------------
(* SpecChat fills the chat of one session beyond MAX_MESSAGES_PER_SESSION *)

MaxSent == 53       \* messages accepted for one session

ChatCreateInputs == {<<ann, [BasePayload EXCEPT !.datetime = DateStr(15, 0), !.capacity = 3]>>}

ChatTexts == {hi, <<" ">>, <<>>, LongText}

\* fewer than MaxSent messages were accepted so far
MaySend ==
    \A k \in 1..Len(sessions) :
        IF sessions[k].messages = <<>> THEN TRUE
        ELSE sessions[k].messages[Len(sessions[k].messages)].id < MaxSent

\* the history of some session is one message short of the cap, or at it
NearCap ==
    \E k \in 1..Len(sessions) :
        Len(sessions[k].messages) >= MAX_MESSAGES_PER_SESSION - 1

NextChat ==
    \/ \E in \in ChatCreateInputs : CreateFirst(in[1], in[2])
    \/ \E sessionId \in FirstIds : handleFollowSession(bob, sessionId)
    \/ \E sessionId \in FirstIds : handleJoinSession(cy, sessionId)
    \/ \E text \in ChatTexts, sessionId \in FirstIds :
           MaySend /\ handleSendMessage(ann, sessionId, text)
    \/ \E cookie \in {bob, cy, dan}, sessionId \in FirstIds :
           /\ MaySend /\ NearCap
           /\ handleSendMessage(cookie, sessionId, <<" ", "h", "i", " ">>)
    \/ Tick

SpecChat == LifeInit /\ [][NextChat]_vars

----------------------------------------------------------------------------
(* SpecRemind follows two sessions under the reminder scan *)

RemindCreateInputs ==
    {<<ann, [BasePayload EXCEPT !.datetime = d, !.capacity = 3]>> :
        d \in {DateStr(45, 0), DateStr(60, 0)}}

RemindEditInputs == {<<ann, [BasePayload EXCEPT !.datetime = DateStr(60, 0), !.capacity = 3]>>}

NextRemind ==
    \/ \E in \in RemindCreateInputs : handleCreateSession(in[1], in[2])
    \/ \E cookie \in {bob, cy}, sessionId \in SessionIds :
           handleJoinSession(cookie, sessionId)
    \/ \E sessionId \in SessionIds : handleLeaveSession(bob, sessionId)
    \/ \E in \in RemindEditInputs, sessionId \in SessionIds :
           handleEditSession(in[1], sessionId, in[2])
    \/ checkUpcomingSessionReminders
    \/ Tick

SpecRemind == LifeInit /\ [][NextRemind]_vars
----------------------------------------------------------------------------
(* Properties of the session lifecycle *)

\* the account a cookie authenticates as
Authenticated(cookie) == findUser(users, cookie) # 0

UserOf(cookie) == users[findUser(users, cookie)].name

\* C1 - Capacity invariant: in every reachable state, whatever requests
\* (create, join, leave, updateParticipants, edit) were served and in whatever
\* order, every stored session satisfies participants.length + 1 <= capacity.
C1_CapacityInvariant ==
    \A k \in 1..Len(sessions) :
        Len(sessions[k].participants) + 1 <= sessions[k].capacity

\* a session of two seats or more is full and the join that followed was refused
C1_Witness ==
    /\ resp.op = "join"
    /\ resp.error = "Session complète"
    /\ \E k \in 1..Len(sessions) :
         /\ sessions[k].id = resp.sid
         /\ sessions[k].capacity >= 2
         /\ Len(sessions[k].participants) + 1 = sessions[k].capacity

\* C2 - Uniqueness invariant as the specification states it: no two stored
\* sessions share the same (club, normalized datetime) pair.  handleCreateSession
\* and handleEditSession never compare a pair with the stored ones.
C2_Uniqueness ==
    \A i, j \in 1..Len(sessions) :
        i # j => ~(/\ sessions[i].club = sessions[j].club
                   /\ sessions[i].datetime = sessions[j].datetime)

\* the session has not started and starts within the reminder lead time
InLeadWindow(session, t) ==
    /\ ~sessionHasStarted(session, t)
    /\ getTime(session.datetime) - t > 0
    /\ getTime(session.datetime) - t <= REMINDER_MINUTES_BEFORE_START

\* the reminders the last step dispatched for a session
RemindersFor(calls, id) ==
    Cardinality({j \in 1..Len(calls) : calls[j].fn = "reminder" /\ calls[j].sid = id})

\* at most one reminder per datetime, and the flag tells whether it was sent
OneReminderPerDatetime ==
    \A k \in 1..Len(sessions) :
        /\ fired[sessions[k].id].n <= 1
        /\ sessions[k].reminderSent <=> fired[sessions[k].id].n = 1

\* after a scan every session inside the lead window has had its one reminder,
\* and the scan dispatched what the history counts
ScanSettles ==
    resp'.op = "scan" =>
        \A k \in 1..Len(sessions') :
            /\ InLeadWindow(sessions'[k], now) => fired'[sessions'[k].id].n = 1
            /\ RemindersFor(notified', sessions'[k].id)
                   = fired'[sessions'[k].id].n - fired[sessions'[k].id].n

\* C3 - Reminder idempotence: however many scans run while a session starts
\* within the 45-minute lead window, exactly one reminder is dispatched for it;
\* an edit that changes its datetime starts the count anew, so that the scans
\* after it dispatch exactly one more reminder.  fired[id].n counts the reminders
\* dispatched since the datetime of session id was last set.
C3_ReminderIdempotence == []OneReminderPerDatetime /\ [][ScanSettles]_vars

\* a scan has sent the reminder of a session that had had one for an earlier
\* datetime
C3_Witness ==
    /\ resp.op = "scan"
    /\ \E k \in 1..Len(sessions) :
         /\ InLeadWindow(sessions[k], now)
         /\ sessions[k].reminderSent
         /\ fired[sessions[k].id].n = 1
         /\ fired[sessions[k].id].prior
         /\ RemindersFor(notified, sessions[k].id) = 1

\* every subscription of every user, in the order of the Users collection
AllEndpoints ==
    concat([k \in 1..Len(users) |->
        [j \in 1..Len(users[k].pushSubscriptions) |->
            users[k].pushSubscriptions[j].endpoint]])

\* the cookies of the users who are neither organizer nor participant
Newcomers(session) ==
    {c \in Cookies :
        /\ Authenticated(c)
        /\ UserOf(c) # session.organizer
        /\ ~includes(session.participants, UserOf(c))}

\* the scenario on a session of the given capacity that has not started:
\* newcomers join while fewer than `joins` participants are registered, the
\* next newcomer is refused with "Session complète", and the first participant
\* then leaves, which notifies every subscription that a spot is available
Scenario(capacity, joins) ==
    \A k \in 1..Len(sessions) :
        LET session == sessions[k]
            first == session.participants[1]
        IN
        (session.capacity = capacity /\ ~sessionHasStarted(session, now)) =>
            /\ \A c \in Newcomers(session) :
                 LET out == joinOutcome(c, session.id) IN
                 IF Len(session.participants) < joins
                   THEN /\ out.status = 200
                        /\ out.sessions =
                               [sessions EXCEPT ![k].participants = Append(@, UserOf(c))]
                   ELSE /\ out.status = 400
                        /\ out.error = "Session complète"
                        /\ out.sessions = sessions
            /\ (Len(session.participants) = joins /\ Authenticated(first)) =>
                 LET out == leaveOutcome(first, session.id) IN
                 /\ out.status = 200
                 /\ ~includes(out.sessions[k].participants, first)
                 /\ \E j \in 1..Len(out.notified) :
                      out.notified[j] = [fn |-> "spotAvailable", sid |-> session.id,
                                         to |-> AllEndpoints]

\* C9 as stated - capacity 2: two different users join in sequence and both
\* joins succeed, a third is refused, the first then leaves
C9_Original == Scenario(2, 2)

\* C9 - the scenario on a session of capacity 3 (the organizer holds one
\* seat): two different non-organizer users join in sequence and both joins
\* succeed, a third user's join fails with "Session complète", the first user's
\* leave then succeeds and triggers a spot-available notification to every
\* subscription.
C9_CapacityThreeScenario == Scenario(3, 2)

\* the first participant has left a full session of capacity 3 and the spot
\* was announced
C9_Witness ==
    /\ resp.op = "leave"
    /\ resp.status = 200
    /\ \E k \in 1..Len(sessions) :
         /\ sessions[k].id = resp.sid
         /\ sessions[k].capacity = 3
         /\ sessions[k].participants = <<cy>>
    /\ \E j \in 1..Len(notified) :
         notified[j] = [fn |-> "spotAvailable", sid |-> resp.sid, to |-> AllEndpoints]

\* C10 as stated - any join attempt by any authenticated user on a session of
\* capacity 1 fails with "Session complète" and leaves the session unchanged
C10_Original ==
    \A k \in 1..Len(sessions) :
        sessions[k].capacity = 1 =>
            \A c \in {x \in Cookies : Authenticated(x)} :
                /\ joinOutcome(c, sessions[k].id).error = "Session complète"
                /\ joinOutcome(c, sessions[k].id).sessions = sessions

\* C10 - every join attempt by an authenticated user on a session of capacity 1
\* fails and leaves the session unchanged; the error is "La session est déjà
\* commencée" once the session has started, "Organisateur déjà inscrit" for the
\* organizer before that, and "Session complète" for everybody else.
C10_CapacityOneClosed ==
    \A k \in 1..Len(sessions) :
        sessions[k].capacity = 1 =>
            \A c \in {x \in Cookies : Authenticated(x)} :
                LET out == joinOutcome(c, sessions[k].id) IN
                /\ out.status = 400
                /\ out.sessions = sessions
                /\ out.notified = <<>>
                /\ out.error =
                       IF sessionHasStarted(sessions[k], now)
                         THEN "La session est déjà commencée"
                       ELSE IF UserOf(c) = sessions[k].organizer
                         THEN "Organisateur déjà inscrit"
                       ELSE "Session complète"

\* a join on a session of capacity 1 was refused as complete
C10_Witness ==
    /\ resp.op = "join"
    /\ resp.status = 400
    /\ resp.error = "Session complète"
    /\ \E k \in 1..Len(sessions) :
         /\ sessions[k].id = resp.sid
         /\ sessions[k].capacity = 1
         /\ sessions[k].participants = <<>>


----------------------------------------------------------------------------
(* Properties of the session operations *)

\* the outcome is an error that changes nothing
Refused(out) == out.status >= 400 /\ out.sessions = sessions /\ out.notified = <<>>

\* the start time of the session is reached
Started(session) == now >= getTime(session.datetime)

\* C18 (started sessions are closed) as stated - once a session has started,
\* join, leave, edit, updateParticipants, follow, unfollow and sendMessage on
\* it return an error and leave the session unchanged, whoever asks.
C18_StartedSessionsClosed ==
    \A k \in 1..Len(sessions) :
        Started(sessions[k]) =>
            LET id == sessions[k].id IN
            /\ \A cookie \in SocialCookies :
                 /\ Refused(joinOutcome(cookie, id))
                 /\ Refused(leaveOutcome(cookie, id))
                 /\ Refused(followOutcome(cookie, id))
                 /\ Refused(unfollowOutcome(cookie, id))
                 /\ \A text \in Texts4Chat : Refused(sendMessageOutcome(cookie, id, text))
            /\ \A in \in EditInputs : Refused(editOutcome(in[1], id, in[2]))
            /\ \A in \in UpdateInputs : Refused(updateOutcome(in[1], id, in[2]))

\* the outcome of every request the model sends, in the current state
Outcomes ==
    {createOutcome(in[1], in[2]) : in \in CreateInputs}
      \cup {editOutcome(in[1], id, in[2]) : in \in EditInputs, id \in SessionIds}
      \cup {updateOutcome(in[1], id, in[2]) : in \in UpdateInputs, id \in SessionIds}
      \cup {deleteOutcome(cookie, id) : cookie \in SocialCookies \cup {zed}, id \in SessionIds}
      \cup {joinOutcome(cookie, id) : cookie \in SocialCookies \cup {zed}, id \in SessionIds}
      \cup {leaveOutcome(cookie, id) : cookie \in SocialCookies \cup {zed}, id \in SessionIds}
      \cup {followOutcome(cookie, id) : cookie \in SocialCookies \cup {zed}, id \in SessionIds}
      \cup {unfollowOutcome(cookie, id) : cookie \in SocialCookies \cup {zed}, id \in SessionIds}
      \cup UNION {{sendMessageOutcome(cookie, id, text) : text \in Texts4Chat} :
                    cookie \in SocialCookies \cup {zed}, id \in SessionIds}

\* a rejected request computes no change, no write and no notification
RejectionChangesNothing ==
    \A out \in Outcomes :
        out.status >= 400 =>
            /\ out.sessions = sessions
            /\ out.fired = fired
            /\ ~out.wrote
            /\ out.notified = <<>>

\* the step of a rejected request leaves the collections as they were
RejectionStep ==
    resp'.status >= 400 =>
        /\ sessions' = sessions
        /\ sessionsFile' = sessionsFile
        /\ users' = users
        /\ usersFile' = usersFile
        /\ notified' = <<>>

\* C17 (rejection leaves state untouched) - every session operation that is
\* rejected with a validation, conflict, permission or not-found error leaves
\* the cached and the persisted Sessions and Users collections exactly as they
\* were before the call and triggers no notification.
C17_RejectionLeavesState == []RejectionChangesNothing /\ [][RejectionStep]_vars

\* C17 witness: a follow request was just rejected on a session that has a
\* participant and a follower, and the persisted list equals the cached one
C17_Witness ==
    /\ resp.op = "follow" /\ resp.status = 400
    /\ \E k \in 1..Len(sessions) :
         /\ sessions[k].id = resp.sid
         /\ sessions[k].participants # <<>>
         /\ sessions[k].followers # <<>>
    /\ sessionsFile = sessions
    /\ notified = <<>>

\* the end of the session (datetime + duration) is reached
AtOrPastEnd(session, t) == t >= getTime(session.datetime) + session.durationMinutes

\* the end of the session lies strictly in the past
PastEnd(session, t) == t > getTime(session.datetime) + session.durationMinutes

\* a listing request was just served
Listed == resp.op = "list" /\ resp.status = 200

\* C20 (purge on list) as stated - after a listing evaluated at time now, the
\* session list holds no session with now >= datetime + duration.
C20_Original ==
    Listed => \A k \in 1..Len(sessions) : ~AtOrPastEnd(sessions[k], now)

\* the listing step keeps exactly the sessions whose end is not strictly past,
\* unchanged and in order, and writes the list if and only if it dropped one
PurgeStep ==
    (resp'.op = "list" /\ resp'.status = 200 /\ resp' # resp) =>
        /\ sessions' = SelectSeq(sessions, LAMBDA session : ~PastEnd(session, now))
        /\ resp'.wrote = (sessions' # sessions)
        /\ sessionsFile' = IF resp'.wrote THEN sessions' ELSE sessionsFile

\* C20 amended - after a listing evaluated at time now, the cached and the
\* persisted session list hold no session with now > datetime + duration (a
\* session whose end is exactly now is kept), and hold every other session,
\* unchanged and in the same relative order; no write happens when nothing
\* was dropped.
C20_PurgeOnList ==
    /\ [](Listed => /\ \A k \in 1..Len(sessions) : ~PastEnd(sessions[k], now)
                    /\ sessionsFile = sessions)
    /\ [][PurgeStep]_vars

\* C20 witness: a listing dropped one session and kept another
C20_Witness ==
    /\ Listed
    /\ resp.wrote
    /\ Len(sessions) = 1
    /\ sessionsFile = sessions

\* C19 (exactly one reminder per session) as stated - with the scheduler
\* scanning every 60 seconds, every stored session that has reached its start
\* time has had exactly one reminder dispatched.
C19_Original ==
    \A k \in 1..Len(sessions) :
        Started(sessions[k]) => fired[sessions[k].id].n = 1

\* a stored session that has reached its start has had one reminder, or none
\* when no timer callback fell strictly between its creation and its start
OneReminderUnlessLate ==
    \A k \in 1..Len(sessions) :
        LET f == fired[sessions[k].id] IN
        /\ f.n <= 1
        /\ Started(sessions[k]) => f.n = (IF f.late THEN 0 ELSE 1)

\* a reminder is dispatched for a stored session, before its start time
DispatchBeforeStart ==
    \A id \in SessionIds :
        fired'[id].n > fired[id].n =>
            \E k \in 1..Len(sessions') :
                /\ sessions'[k].id = id
                /\ now' < getTime(sessions'[k].datetime)
                /\ RemindersFor(notified', id) = 1

\* C19 amended - with the scheduler scanning every 60 seconds, every session
\* that is created and reaches its start time without being deleted or
\* re-dated has exactly one reminder dispatched, before its start time, if a
\* scan falls strictly between its creation and its start (which is certain
\* when it is created more than 60 seconds before its start); a session created
\* later than the last scan before its start, or with a start time already
\* reached (up to 5 minutes back), gets no reminder.
C19_OneReminderBeforeStart == []OneReminderUnlessLate /\ [][DispatchBeforeStart]_vars

\* C19 witness: a session created ahead of time has started with its one
\* reminder sent
C19_Witness ==
    \E k \in 1..Len(sessions) :
        /\ Started(sessions[k])
        /\ ~fired[sessions[k].id].late
        /\ fired[sessions[k].id].n = 1
        /\ sessions[k].reminderSent
----------------------------------------------------------------------------
(* Push dispatch.  notifyAndCleanup reads the Users collection and runs a  *)
(* notification function on it, which makes one or several                 *)
(* sendPushNotifications calls; each call takes a snapshot of the          *)
(* subscriptions it addresses, awaits one send after the other, prunes the *)
(* endpoints that are gone from the users in place and returns; the Users  *)
(* collection is written once the notification function has returned.      *)
(* Request handlers run while a send is awaited, never between the last    *)
(* send's result and the next await.                                       *)

MaxDispatch == 1    \* notifications in flight at the same time

Endpoints == {"e1", "e2"}

Keys == {"k1", "k2"}

Statuses == {201, 404, 410, 500}    \* what the push service answers to a send

PushCookies == {ann, bob}

\* the sendPushNotifications calls of a notification
CallLists ==
    { sendSpotAvailableNotification([organizer |-> ann]),
      sendNewSessionNotification([organizer |-> ann]),
      sendSessionReminderNotification([organizer |-> ann, participants |-> <<bob>>]) }

PushUsers == << User(ann, <<Sub("e1", "k1")>>), User(bob, <<>>) >>

NoDispatch ==
    [pc |-> "idle", calls |-> <<>>, subs |-> <<>>, i |-> 0, outcomes |-> <<>>,
     cleaned |-> FALSE]

PushInit ==
    /\ users = PushUsers
    /\ usersFile = PushUsers
    /\ disp = [k \in 1..MaxDispatch |-> NoDispatch]
    /\ LifeIdle
    /\ StoreIdle
    /\ FlowIdle

\* no dispatch is between the return of a call and its next await
Quiet == \A k \in DOMAIN disp : disp[k].pc # "returned"

\* err.statusCode === 410 || err.statusCode === 404
isGone(status) == status = 410 \/ status = 404

\* the endpoints of the snapshot whose send failed as gone
failedEndpoints(subs, outcomes) ==
    {subs[j].endpoint : j \in {x \in 1..Len(outcomes) : isGone(outcomes[x])}}

\* the cleanup loop: every user's list without the failed endpoints
pruneKeepsAll(us, failed) == us

prune(us, failed) ==
    [k \in 1..Len(us) |->
        [us[k] EXCEPT !.pushSubscriptions =
            SelectSeq(@, LAMBDA sub : sub.endpoint \notin failed)]]

\* sendPushNotifications is entered: the snapshot is taken; without any
\* subscription the call returns false at once
beginCall(d, calls) ==
    LET subs == getAllSubscriptions(users, Head(calls).target, Head(calls).excluded)
    IN  [d EXCEPT !.calls = Tail(calls), !.subs = subs, !.outcomes = <<>>,
                  !.i = IF subs = <<>> THEN 0 ELSE 1,
                  !.pc = IF subs = <<>> THEN "returned" ELSE "sending"]

\* notifyAndCleanup(notifFn, ...): readUsers() and the notification function up
\* to its first await
notifyAndCleanupStart(k, calls) ==
    /\ UNCHANGED <<storeVars, lifeVars, flowVars>>
    /\ Quiet
    /\ disp[k].pc = "idle"
    /\ \A h \in 1..(k - 1) : disp[h].pc # "idle"
    /\ disp' = [disp EXCEPT ![k] = beginCall([NoDispatch EXCEPT !.cleaned = FALSE], calls)]
    /\ UNCHANGED <<users, usersFile>>

\* mutant: the first send that fails ends the loop
sendNotificationUntilFailure(k, status) ==
    LET d == disp[k]
        outcomes == Append(d.outcomes, status)
        failed == failedEndpoints(d.subs, outcomes)
    IN
    /\ UNCHANGED <<storeVars, lifeVars, flowVars>>
    /\ Quiet
    /\ d.pc = "sending"
    /\ IF d.i < Len(d.subs) /\ status = 201
         THEN /\ disp' = [disp EXCEPT ![k].outcomes = outcomes, ![k].i = d.i + 1]
              /\ UNCHANGED users
         ELSE /\ disp' = [disp EXCEPT ![k].outcomes = outcomes, ![k].pc = "returned",
                                      ![k].cleaned = d.cleaned \/ failed # {}]
              /\ users' = IF failed # {} THEN prune(users, failed) ELSE users
    /\ UNCHANGED usersFile

\* the awaited send settles with a status; after the last one of the snapshot
\* the call prunes and returns
sendNotification(k, status) ==
    LET d == disp[k]
        outcomes == Append(d.outcomes, status)
        failed == failedEndpoints(d.subs, outcomes)
    IN
    /\ UNCHANGED <<storeVars, lifeVars, flowVars>>
    /\ Quiet
    /\ d.pc = "sending"
    /\ IF d.i < Len(d.subs)
         THEN /\ disp' = [disp EXCEPT ![k].outcomes = outcomes, ![k].i = d.i + 1]
              /\ UNCHANGED users
         ELSE /\ disp' = [disp EXCEPT ![k].outcomes = outcomes, ![k].pc = "returned",
                                      ![k].cleaned = d.cleaned \/ failed # {}]
              /\ users' = IF failed # {} THEN prune(users, failed) ELSE users
    /\ UNCHANGED usersFile

\* mutant: the notification function's result is dropped, the Users
\* collection is not written after a cleanup
afterCallSkipsWrite(k) ==
    LET d == disp[k] IN
    /\ UNCHANGED <<storeVars, lifeVars, flowVars>>
    /\ d.pc = "returned"
    /\ IF d.calls # <<>>
         THEN disp' = [disp EXCEPT ![k] = beginCall(d, d.calls)]
         ELSE disp' = [disp EXCEPT ![k] = NoDispatch]
    /\ UNCHANGED <<users, usersFile>>

\* after a call has returned: the next call of the notification function, or
\* its .then(cleaned => { if (cleaned) storage.writeUsers(users); })
afterCall(k) ==
    LET d == disp[k] IN
    /\ UNCHANGED <<storeVars, lifeVars, flowVars>>
    /\ d.pc = "returned"
    /\ IF d.calls # <<>>
         THEN /\ disp' = [disp EXCEPT ![k] = beginCall(d, d.calls)]
              /\ UNCHANGED usersFile
         ELSE /\ disp' = [disp EXCEPT ![k] = NoDispatch]
              /\ usersFile' = IF d.cleaned THEN users ELSE usersFile
    /\ UNCHANGED users

\* index of the subscription with this endpoint in a list, 0 when none
findSub(list, endpoint) ==
    LET hits == {j \in 1..Len(list) : list[j].endpoint = endpoint}
    IN  IF hits = {} THEN 0 ELSE CHOOSE j \in hits : \A h \in hits : j <= h

\* mutant: a new subscription is appended without taking the endpoint away
\* from the other users
handleSubscribePushKeepsOthers(cookie, endpoint, keys) ==
    LET u == findUser(users, cookie)
        index == findSub(users[u].pushSubscriptions, endpoint)
        updated ==
            [users EXCEPT ![u].pushSubscriptions[index] = Sub(endpoint, keys)]
        added ==
            [users EXCEPT ![u].pushSubscriptions = Append(@, Sub(endpoint, keys))]
    IN
    /\ UNCHANGED <<storeVars, lifeVars, flowVars>>
    /\ Quiet
    /\ u # 0
    /\ IF index # 0
         THEN IF users[u].pushSubscriptions[index].keys # keys
                THEN users' = updated /\ usersFile' = updated
                ELSE UNCHANGED <<users, usersFile>>
         ELSE users' = added /\ usersFile' = added
    /\ UNCHANGED disp

handleSubscribePush(cookie, endpoint, keys) ==
    LET u == findUser(users, cookie)
        index == findSub(users[u].pushSubscriptions, endpoint)
        updated ==
            [users EXCEPT ![u].pushSubscriptions[index] = Sub(endpoint, keys)]
        moved ==
            [k \in 1..Len(users) |->
                IF k = u
                  THEN [users[k] EXCEPT !.pushSubscriptions =
                            Append(@, Sub(endpoint, keys))]
                  ELSE [users[k] EXCEPT !.pushSubscriptions =
                            SelectSeq(@, LAMBDA sub : sub.endpoint # endpoint)]]
    IN
    /\ UNCHANGED <<storeVars, lifeVars, flowVars>>
    /\ Quiet
    /\ u # 0
    /\ IF index # 0
         THEN IF users[u].pushSubscriptions[index].keys # keys
                THEN users' = updated /\ usersFile' = updated
                ELSE UNCHANGED <<users, usersFile>>
         ELSE users' = moved /\ usersFile' = moved
    /\ UNCHANGED disp

handleUnsubscribePush(cookie, endpoint) ==
    LET u == findUser(users, cookie)
        remaining == prune(users, {endpoint})
    IN
    /\ UNCHANGED <<storeVars, lifeVars, flowVars>>
    /\ Quiet
    /\ u # 0
    /\ IF remaining # users
         THEN users' = remaining /\ usersFile' = remaining
         ELSE UNCHANGED <<users, usersFile>>
    /\ UNCHANGED disp

PushNext ==
    \/ \E k \in 1..MaxDispatch, calls \in CallLists : notifyAndCleanupStart(k, calls)
    \/ \E k \in 1..MaxDispatch, status \in Statuses : sendNotification(k, status)
    \/ \E k \in 1..MaxDispatch : afterCall(k)
    \/ \E cookie \in PushCookies, endpoint \in Endpoints, keys \in Keys :
           handleSubscribePush(cookie, endpoint, keys)
    \/ \E cookie \in PushCookies, endpoint \in Endpoints :
           handleUnsubscribePush(cookie, endpoint)

SpecPush == PushInit /\ [][PushNext]_vars


----------------------------------------------------------------------------
(* Properties of the push dispatch *)

\* the statuses the push service uses for a subscription that is gone
GoneStatus(status) == status \in {404, 410}

\* some subscription of the collection has this endpoint
EndpointPresent(us, endpoint) ==
    \E k \in 1..Len(us) : \E j \in 1..Len(us[k].pushSubscriptions) :
        us[k].pushSubscriptions[j].endpoint = endpoint

\* the snapshot entry is still a subscription of its user, keys unchanged
StillSubscribed(us, entry) ==
    \E k \in 1..Len(us) :
        /\ us[k].name = entry.userName
        /\ \E j \in 1..Len(us[k].pushSubscriptions) :
             us[k].pushSubscriptions[j] = Sub(entry.endpoint, entry.keys)

\* the endpoints of a call's snapshot whose delivery failed with 410 or 404
GoneEndpoints(d) ==
    {d.subs[j].endpoint : j \in {x \in 1..Len(d.outcomes) : GoneStatus(d.outcomes[x])}}

\* when a call has returned, no endpoint that failed as gone is left
GoneAreAbsent ==
    \A k \in 1..MaxDispatch :
        disp[k].pc = "returned" =>
            \A e \in GoneEndpoints(disp[k]) : ~EndpointPresent(users, e)

\* when a call has returned, every subscription whose delivery succeeded or
\* failed with another status is still there, unchanged
OthersArePresent ==
    \A k \in 1..MaxDispatch :
        disp[k].pc = "returned" =>
            \A j \in 1..Len(disp[k].subs) :
                ~GoneStatus(disp[k].outcomes[j]) => StillSubscribed(users, disp[k].subs[j])

\* the step in which a call prunes and returns takes out of every user's list
\* the subscriptions with a gone endpoint and nothing else
PrunesOnlyGone ==
    \A k \in 1..MaxDispatch :
        (disp[k].pc = "sending" /\ disp'[k].pc = "returned") =>
            LET gone == GoneEndpoints(disp'[k]) IN
            /\ Len(users') = Len(users)
            /\ \A u \in 1..Len(users) :
                 /\ users'[u].name = users[u].name
                 /\ users'[u].pushSubscriptions =
                        SelectSeq(users[u].pushSubscriptions,
                                  LAMBDA sub : sub.endpoint \notin gone)

\* C8 as stated - after the dispatch call returns, a subscription whose delivery
\* failed with 410 or 404 is absent from the Users collection, and one whose
\* delivery succeeded or failed with any other status is still present with
\* unchanged content
C8_Original == GoneAreAbsent /\ OthersArePresent

\* C8 - Subscription pruning: when a dispatch call returns, every subscription
\* whose delivery failed with 410 or 404 is absent from the Users collection,
\* and the call has removed or changed no other subscription: each one that was
\* in the collection when the last send settled is there with the same content
\* when the call returns.
C8_SubscriptionPruning == []GoneAreAbsent /\ [][PrunesOnlyGone]_vars

\* a call has returned after one send failed as gone and another did not: the
\* first subscription is pruned, the second is kept
C8_Witness ==
    \E k \in 1..MaxDispatch :
        /\ disp[k].pc = "returned"
        /\ \E i, j \in 1..Len(disp[k].subs) :
             /\ GoneStatus(disp[k].outcomes[i])
             /\ ~GoneStatus(disp[k].outcomes[j])
             /\ ~EndpointPresent(users, disp[k].subs[i].endpoint)
             /\ StillSubscribed(users, disp[k].subs[j])


\* C11 (cache/primary consistency) as stated - whenever no write is executing,
\* the Users list that read() returns from the cache equals the list the last
\* completed write stored in users.json.
C11_CachePrimaryConsistency == Quiet => users = usersFile

\* the positions <<user, subscription>> at which a collection holds an endpoint
Holders(us, endpoint) ==
    {<<k, j>> \in (1..Len(us)) \X (1..2 * Cardinality(Endpoints)) :
        /\ j <= Len(us[k].pushSubscriptions)
        /\ us[k].pushSubscriptions[j].endpoint = endpoint}

\* every endpoint is held at most once in the whole collection
OneOwner(us) == \A e \in Endpoints : Cardinality(Holders(us, e)) <= 1

\* user k holds the endpoint
Holds(us, k, endpoint) == \E j \in 1..Len(us[k].pushSubscriptions) :
                              us[k].pushSubscriptions[j].endpoint = endpoint

\* when a user gains an endpoint, the same step takes it away from every
\* other user and writes the collection
TakesOver ==
    \A k \in 1..Len(users) : \A e \in Endpoints :
        (~Holds(users, k, e) /\ Holds(users', k, e)) =>
            /\ \A o \in 1..Len(users') : o # k => ~Holds(users', o, e)
            /\ usersFile' = users'

\* C16 (endpoint ownership) - in every state reachable by subscribe, unsubscribe
\* and dispatch cleanups, a push endpoint appears in the subscription list of
\* at most one user and at most once in that list, in the cached and in the
\* persisted collection; when a user subscribes with an endpoint held by
\* another user, the other user's copy is removed in the same write.
C16_EndpointOwnership == [](OneOwner(users) /\ OneOwner(usersFile)) /\ [][TakesOver]_vars

\* C16 witness: the endpoint ann held at the start is now bob's, in the cache
\* and in the file, next to another endpoint of bob
C16_Witness ==
    /\ ~Holds(users, 1, "e1")
    /\ Holds(users, 2, "e1")
    /\ Holds(users, 2, "e2")
    /\ usersFile = users

\* user name, endpoint and keys of every subscription of a collection
Entries(us) ==
    {[userName |-> us[k].name, endpoint |-> us[k].pushSubscriptions[j].endpoint,
      keys |-> us[k].pushSubscriptions[j].keys] :
        <<k, j>> \in {p \in (1..Len(us)) \X (1..2 * Cardinality(Endpoints)) :
                        p[2] <= Len(us[p[1]].pushSubscriptions)}}

\* every write of users.json stores the cached collection as it is at that
\* moment: no operation writes back a list it read earlier
WritesCurrent == usersFile' # usersFile => usersFile' = users'

\* a dispatch that has cleaned up ends by writing the cached collection
CleanupWrites ==
    \A k \in 1..MaxDispatch :
        (disp[k].pc = "returned" /\ disp[k].calls = <<>> /\ disp[k].cleaned
           /\ disp'[k].pc = "idle")
        => (users' = users /\ usersFile' = users)

\* C15 (lost update is reachable) - two concurrent operations on the Users
\* collection, a dispatch and a subscribePush, can both read the list before
\* either writes, both complete, and leave the subscriber's change out of the
\* final cached and persisted collection.  Every write stores the cache as it
\* is (no stale list is written back), so the change is lost in the
\* dispatch's cleanup of the cache, which its final write persists.
C15_LostUpdate == [][WritesCurrent /\ CleanupWrites]_vars

\* C15 witness: a dispatch took its snapshot with the old keys of an endpoint,
\* a subscribePush then stored new keys for it in users.json, the send with the
\* old keys was answered gone and the cleanup took the renewed subscription out
\* of the cache; the write that follows takes it out of users.json
C15_Witness ==
    \E k \in 1..MaxDispatch :
        /\ disp[k].pc = "returned"
        /\ disp[k].calls = <<>>
        /\ disp[k].cleaned
        /\ \E j \in 1..Len(disp[k].subs) :
             LET old == disp[k].subs[j] IN
             /\ GoneStatus(disp[k].outcomes[j])
             /\ \E new \in Entries(usersFile) :
                  /\ new.userName = old.userName
                  /\ new.endpoint = old.endpoint
                  /\ new.keys # old.keys
             /\ ~EndpointPresent(users, old.endpoint)

----------------------------------------------------------------------------
(* The course of one mutating request.  An accepted request mutates the    *)
(* cached session list in place, calls storage.writeSessions, calls        *)
(* notifyAndCleanup once per notification and calls sendJson, in this      *)
(* order and without yielding; the sends of the notifications it started   *)
(* settle afterwards.  SpecFlow takes the handler apart into these calls:  *)
(* run holds the calls that are left, log the calls made.  A write that    *)
(* throws rejects the handler's promise, which the router answers with a   *)
(* 500.  A handler makes at most two notifyAndCleanup calls.               *)

FlowUsers == << User(ann, <<Sub("e1", "k1")>>), User(bob, <<Sub("e2", "k1")>>) >>

\* bob joins, follows and writes; ann organizes
FlowCookies == {bob}

FlowStatuses == {201, 410, 500}    \* what the push service answers to a send

FlowCreateInputs == {<<ann, BasePayload>>, <<zed, BasePayload>>}

FlowEditInputs == {<<ann, [BasePayload EXCEPT !.datetime = DateStr(60, 0)]>>}

FlowUpdateInputs == {<<ann, <<>> >>}

FlowInit ==
    /\ now = 0
    /\ sessions = <<>>
    /\ sessionsFile = <<>>
    /\ nextId = 1
    /\ resp = NoResp
    /\ notified = <<>>
    /\ fired = [k \in SessionIds |-> NoFire]
    /\ users = FlowUsers
    /\ usersFile = FlowUsers
    /\ disp = <<NoDispatch, NoDispatch>>
    /\ StoreIdle
    /\ FlowIdle

\* the sendPushNotifications calls of a recorded notifyAndCleanup call
notificationCalls(n, list) ==
    LET session == list[findIndex(list, n.sid)] IN
    CASE n.fn = "newSession" -> sendNewSessionNotification(session)
      [] n.fn = "participantJoined" -> sendParticipantJoinedNotification(session)
      [] n.fn = "participantLeft" -> sendParticipantLeftNotification(session)
      [] n.fn = "spotAvailable" -> sendSpotAvailableNotification(session)
      [] n.fn = "reminder" -> sendSessionReminderNotification(session)
      [] n.fn = "chatMessage" ->
            sendChatMessageNotification(session, session.messages[Len(session.messages)])

\* mutant: the handler answers and notifies before it writes
handlerStepsWriteLast(out) ==
    [k \in 1..Len(out.notified) |-> "notify"] \o <<"respond", "write">>

\* what an accepted request does after its checks and its mutation
handlerSteps(out) ==
    <<"write">> \o [k \in 1..Len(out.notified) |-> "notify"] \o <<"respond">>

\* a request is routed to its handler, which checks it and, when it accepts
\* it, mutates the cached list; no request is taken while a dispatch is left
requestHandler(op, sessionId, out) ==
    /\ UNCHANGED <<storeVars, pushVars, now>>
    /\ run = NoHandler
    /\ \A k \in DOMAIN disp : disp[k].pc = "idle"
    /\ nextId' = IF op = "create" /\ out.status = 200 THEN nextId + 1 ELSE nextId
    /\ log' = <<>>
    /\ IF out.status # 200
         THEN /\ Respond(op, IF op = "create" THEN 0 ELSE sessionId, out)
              /\ UNCHANGED run
         ELSE /\ sessions' = out.sessions
              /\ fired' = out.fired
              /\ notified' = <<>>
              /\ resp' = [op |-> op, sid |-> sessionId, status |-> 0, error |-> "",
                          wrote |-> FALSE]
              /\ run' = [op |-> op, sid |-> sessionId, steps |-> handlerSteps(out),
                         calls |-> out.notified]
              /\ UNCHANGED sessionsFile

\* storage.writeSessions(sessions): it returns, or it throws and the router's
\* catch answers sendError(res, 500, 'Erreur serveur')
writeSessions(ok) ==
    /\ UNCHANGED <<storeVars, pushVars, now, sessions, nextId, notified, fired>>
    /\ run.steps # <<>>
    /\ Head(run.steps) = "write"
    /\ IF ok
         THEN /\ sessionsFile' = sessions
              /\ run' = [run EXCEPT !.steps = Tail(@)]
              /\ log' = Append(log, "write")
              /\ UNCHANGED resp
         ELSE /\ run' = NoHandler
              /\ log' = log \o <<"writeFailed", "error">>
              /\ resp' = [op |-> run.op, sid |-> run.sid, status |-> 500,
                          error |-> "Erreur serveur", wrote |-> FALSE]
              /\ UNCHANGED sessionsFile

\* the dispatch slot a notifyAndCleanup call takes
freeSlot == CHOOSE k \in DOMAIN disp : disp[k].pc = "idle" /\ \A h \in 1..(k - 1) : disp[h].pc # "idle"

\* notifyAndCleanup(notifFn, session, ...) inside the handler: readUsers() and
\* the notification function up to its first await
notifyAndCleanupCall ==
    LET calls == notificationCalls(Head(run.calls), sessions) IN
    /\ UNCHANGED <<storeVars, now, sessions, sessionsFile, nextId, resp, fired>>
    /\ run.steps # <<>>
    /\ Head(run.steps) = "notify"
    /\ disp' = [disp EXCEPT ![freeSlot] =
                    IF calls = <<>> THEN [NoDispatch EXCEPT !.pc = "returned"]
                    ELSE beginCall(NoDispatch, calls)]
    /\ notified' = Append(notified, Head(run.calls))
    /\ run' = [run EXCEPT !.steps = Tail(@), !.calls = Tail(@)]
    /\ log' = Append(log, "notify")
    /\ UNCHANGED <<users, usersFile>>

\* sendJson(res, 200, ...): the handler is over
sendJsonCall ==
    /\ UNCHANGED <<storeVars, pushVars, now, sessions, sessionsFile, nextId, notified,
                   fired>>
    /\ run.steps # <<>>
    /\ Head(run.steps) = "respond"
    /\ resp' = [op |-> run.op, sid |-> run.sid, status |-> 200, error |-> "",
                wrote |-> "write" \in {log[k] : k \in 1..Len(log)}]
    /\ run' = [run EXCEPT !.steps = Tail(@)]
    /\ log' = Append(log, "respond")

\* the handler has returned
handlerReturn ==
    /\ UNCHANGED <<storeVars, pushVars, lifeVars, log>>
    /\ run # NoHandler
    /\ run.steps = <<>>
    /\ run' = NoHandler

\* mutant: an awaited send settles while the handler is still running
settleInsideHandler(k, status) == sendNotification(k, status)

\* an awaited send settles: only once the handler has returned
settle(k, status) == run = NoHandler /\ sendNotification(k, status)

\* the continuation of a returned call: only once the handler has returned
continue(k) == run = NoHandler /\ afterCall(k)

\* mutant: the failure of the cleanup write reaches the caller as a 500
cleanupWriteFailsLoudly(k) ==
    /\ UNCHANGED <<storeVars, flowVars, now, sessions, sessionsFile, nextId, notified,
                   fired>>
    /\ run = NoHandler
    /\ disp[k].pc = "returned" /\ disp[k].calls = <<>> /\ disp[k].cleaned
    /\ disp' = [disp EXCEPT ![k] = NoDispatch]
    /\ resp' = [resp EXCEPT !.status = 500, !.error = "Erreur serveur"]
    /\ UNCHANGED <<users, usersFile>>

\* storage.writeUsers(users) throws in the .then of notifyAndCleanup: the
\* .catch logs the error
cleanupWriteFails(k) ==
    /\ UNCHANGED <<storeVars, lifeVars, flowVars>>
    /\ run = NoHandler
    /\ disp[k].pc = "returned" /\ disp[k].calls = <<>> /\ disp[k].cleaned
    /\ disp' = [disp EXCEPT ![k] = NoDispatch]
    /\ UNCHANGED <<users, usersFile>>

NextFlow ==
    \/ \E in \in FlowCreateInputs :
           /\ nextId = 1
           /\ requestHandler("create", nextId, createOutcome(in[1], in[2]))
    \/ \E cookie \in FlowCookies, sessionId \in FirstIds :
           requestHandler("join", sessionId, joinOutcome(cookie, sessionId))
    \/ \E cookie \in FlowCookies, sessionId \in FirstIds :
           requestHandler("leave", sessionId, leaveOutcome(cookie, sessionId))
    \/ \E in \in FlowUpdateInputs, sessionId \in FirstIds :
           requestHandler("update", sessionId, updateOutcome(in[1], sessionId, in[2]))
    \/ \E cookie \in FlowCookies, sessionId \in FirstIds :
           /\ \A k \in 1..Len(sessions) : Len(sessions[k].messages) < MaxMessages
           /\ requestHandler("sendMessage", sessionId,
                             sendMessageOutcome(cookie, sessionId, hi))
    \/ \E in \in FlowEditInputs, sessionId \in FirstIds :
           requestHandler("edit", sessionId, editOutcome(in[1], sessionId, in[2]))
    \/ \E sessionId \in FirstIds :
           requestHandler("delete", sessionId, deleteOutcome(ann, sessionId))
    \/ \E cookie \in FlowCookies, sessionId \in FirstIds :
           requestHandler("follow", sessionId, followOutcome(cookie, sessionId))
    \/ \E cookie \in FlowCookies, sessionId \in FirstIds :
           requestHandler("unfollow", sessionId, unfollowOutcome(cookie, sessionId))
    \/ \E ok \in BOOLEAN : writeSessions(ok)
    \/ notifyAndCleanupCall
    \/ sendJsonCall
    \/ handlerReturn
    \/ \E k \in DOMAIN disp, status \in FlowStatuses : settle(k, status)
    \/ \E k \in DOMAIN disp : continue(k)
    \/ \E k \in DOMAIN disp : cleanupWriteFails(k)

SpecFlow == FlowInit /\ [][NextFlow]_vars

----------------------------------------------------------------------------
(* The course of one timer callback.  checkUpcomingSessionReminders goes   *)
(* through the cached list; for every session that is due it sets the flag *)
(* in place and calls notifyAndCleanup, and after the loop it writes the    *)
(* list if a flag was set; a write that throws is caught and logged.        *)
(* SpecTimer takes the callback apart into these calls, lets requests      *)
(* create the sessions, and lets the process stop and start again, which   *)
(* loads the collections from their files.                                 *)

TimerCreateInputs ==
    {<<ann, [BasePayload EXCEPT !.datetime = d]>> : d \in {DateStr(45, 0), DateStr(60, 0)}}

TimerStatuses == {201}

MaxReminders == 2   \* reminders dispatched for one session

\* mutant: the list is written after every flag
scanStepsWriteEach(out) ==
    [k \in 1..(3 * Len(out.notified)) |->
        CASE k % 3 = 1 -> "flag" [] k % 3 = 2 -> "remind" [] OTHER -> "persist"]

\* what the callback does for the sessions that are due: the flag and the
\* notifyAndCleanup call of each, then the write
scanSteps(out) ==
    IF out.notified = <<>> THEN <<>>
    ELSE [k \in 1..(2 * Len(out.notified)) |-> IF k % 2 = 1 THEN "flag" ELSE "remind"]
             \o <<"persist">>

\* the timer fires: readSessions() and the conditions of the loop
timerCallback ==
    /\ UNCHANGED <<storeVars, pushVars, now, sessions, sessionsFile, nextId, fired>>
    /\ run = NoHandler
    /\ \A k \in DOMAIN disp : disp[k].pc = "idle"
    /\ \A id \in DOMAIN fired : fired[id].n < MaxReminders
    /\ log' = <<>>
    /\ notified' = <<>>
    /\ resp' = [op |-> "scan", sid |-> 0, status |-> 0, error |-> "", wrote |-> FALSE]
    /\ run' = IF scanOutcome.notified = <<>> THEN NoHandler
              ELSE [op |-> "scan", sid |-> 0, steps |-> scanSteps(scanOutcome),
                    calls |-> scanOutcome.notified]

\* session.reminderSent = true, in the cached list
setReminderSent ==
    LET sessionId == Head(run.calls).sid IN
    /\ UNCHANGED <<storeVars, pushVars, now, sessionsFile, nextId, resp, notified, fired>>
    /\ run.steps # <<>>
    /\ Head(run.steps) = "flag"
    /\ sessions' = [sessions EXCEPT ![findIndex(sessions, sessionId)].reminderSent = TRUE]
    /\ run' = [run EXCEPT !.steps = Tail(@)]
    /\ log' = Append(log, "flag")

\* notifyAndCleanup(notifications.sendSessionReminderNotification, session)
\* inside the loop: readUsers() and the notification function up to its first
\* await; the reminder is counted
dispatchReminder ==
    LET sessionId == Head(run.calls).sid
        calls == notificationCalls(Head(run.calls), sessions)
    IN
    /\ UNCHANGED <<storeVars, now, sessions, sessionsFile, nextId, resp>>
    /\ run.steps # <<>>
    /\ Head(run.steps) = "remind"
    /\ disp' = [disp EXCEPT ![freeSlot] =
                    IF calls = <<>> THEN [NoDispatch EXCEPT !.pc = "returned"]
                    ELSE beginCall(NoDispatch, calls)]
    /\ notified' = Append(notified, Head(run.calls))
    /\ fired' = [fired EXCEPT ![sessionId].n = @ + 1]
    /\ run' = [run EXCEPT !.steps = Tail(@), !.calls = Tail(@)]
    /\ log' = Append(log, "notify")
    /\ UNCHANGED <<users, usersFile>>

\* if (updated) storage.writeSessions(sessions): it returns, or it throws and
\* the callback's catch logs the error
persistFlags(ok) ==
    /\ UNCHANGED <<storeVars, pushVars, now, sessions, nextId, notified, fired>>
    /\ run.steps # <<>>
    /\ Head(run.steps) = "persist"
    /\ sessionsFile' = IF ok THEN sessions ELSE sessionsFile
    /\ resp' = [resp EXCEPT !.wrote = ok]
    /\ run' = [run EXCEPT !.steps = Tail(@)]
    /\ log' = Append(log, IF ok THEN "write" ELSE "writeFailed")

\* the process stops and is started again: the collections are read from
\* their files, the dispatches in flight are gone
restart ==
    /\ UNCHANGED <<storeVars, now, sessionsFile, usersFile, nextId, fired>>
    /\ sessions # sessionsFile \/ run # NoHandler
    /\ sessions' = sessionsFile
    /\ users' = usersFile
    /\ disp' = [k \in DOMAIN disp |-> NoDispatch]
    /\ run' = NoHandler
    /\ log' = <<>>
    /\ notified' = <<>>
    /\ resp' = [op |-> "restart", sid |-> 0, status |-> 0, error |-> "", wrote |-> FALSE]

NextTimer ==
    \/ \E in \in TimerCreateInputs :
           /\ nextId \in SessionIds
           /\ requestHandler("create", nextId, createOutcome(in[1], in[2]))
    \/ \E ok \in BOOLEAN : writeSessions(ok)
    \/ notifyAndCleanupCall
    \/ sendJsonCall
    \/ handlerReturn
    \/ \E k \in DOMAIN disp, status \in TimerStatuses : settle(k, status)
    \/ \E k \in DOMAIN disp : continue(k)
    \/ timerCallback
    \/ setReminderSent
    \/ dispatchReminder
    \/ \E ok \in BOOLEAN : persistFlags(ok)
    \/ restart
    \/ run = NoHandler /\ Tick

SpecTimer == FlowInit /\ [][NextTimer]_vars

----------------------------------------------------------------------------
\* SpecResubscribe follows dispatches to two users; while a dispatch is in
\* flight an endpoint is registered only after the dispatch's send to it has
\* failed as gone
ResubscribeInit ==
    /\ users = FlowUsers
    /\ usersFile = FlowUsers
    /\ disp = [k \in 1..MaxDispatch |-> NoDispatch]
    /\ LifeIdle
    /\ StoreIdle
    /\ FlowIdle

\* the send of a dispatch in flight to this endpoint has failed as gone
FailedInFlight(endpoint) ==
    \E k \in DOMAIN disp :
        /\ disp[k].pc = "sending"
        /\ endpoint \in failedEndpoints(disp[k].subs, disp[k].outcomes)

ResubscribeNext ==
    \/ \E k \in 1..MaxDispatch, calls \in CallLists : notifyAndCleanupStart(k, calls)
    \/ \E k \in 1..MaxDispatch, status \in Statuses : sendNotification(k, status)
    \/ \E k \in 1..MaxDispatch : afterCall(k)
    \/ \E cookie \in PushCookies, endpoint \in Endpoints, keys \in Keys :
           /\ FailedInFlight(endpoint) \/ \A k \in DOMAIN disp : disp[k].pc = "idle"
           /\ handleSubscribePush(cookie, endpoint, keys)
    \/ \E cookie \in PushCookies, endpoint \in Endpoints :
           /\ \A k \in DOMAIN disp : disp[k].pc = "idle"
           /\ handleUnsubscribePush(cookie, endpoint)

SpecResubscribe == ResubscribeInit /\ [][ResubscribeNext]_vars

----------------------------------------------------------------------------
(* Properties of the course of a request *)

Logged(e) == \E p \in 1..Len(log) : log[p] = e

\* every notifyAndCleanup call and every answer of the log comes after a write
AfterWrite ==
    \A p \in 1..Len(log) :
        log[p] \in {"notify", "respond"} => \E q \in 1..(p - 1) : log[q] = "write"

\* a write that threw is followed by no notifyAndCleanup call and no 200
FailedWriteStops ==
    Logged("writeFailed") =>
        /\ ~Logged("notify") /\ ~Logged("respond")
        /\ resp.status = 500
        /\ \A k \in DOMAIN disp : disp[k].pc = "idle"

\* C12 (write-before-effects ordering) - in every mutating session operation
\* the write of the session list has completed, with the mutated list, before
\* the 200 is sent and before any notifyAndCleanup call is made; when the
\* write throws, no 200 is sent and no dispatch is started.
C12_WriteBeforeEffects ==
    /\ AfterWrite
    /\ FailedWriteStops
    /\ (run # NoHandler /\ Logged("write")) => sessionsFile = sessions
    /\ resp.status = 200 => Logged("write")
    /\ (\E k \in DOMAIN disp : disp[k].pc # "idle") => Logged("write")

\* C12 witness: a leave that frees a spot of a full session has written, made
\* its two notifyAndCleanup calls and answered
C12_Witness ==
    /\ log = <<"write", "notify", "notify", "respond">>
    /\ resp.op = "leave" /\ resp.status = 200
    /\ sessionsFile = sessions

NothingSettled ==
    run # NoHandler => \A k \in DOMAIN disp : disp[k].outcomes = <<>> /\ ~disp[k].cleaned

\* a notification reads Users and starts its first send after the write and
\* before the response
ReadBeforeResponse ==
    \A k \in DOMAIN disp :
        (disp[k].pc = "idle" /\ disp'[k].pc # "idle")
        => (Logged("write") /\ ~Logged("respond") /\ users' = users)

\* a send settles, the cleanup is made and Users is written after the response
SettledAfterResponse ==
    (\/ users' # users
     \/ usersFile' # usersFile
     \/ \E k \in DOMAIN disp : disp'[k].outcomes # <<>> /\ disp'[k].outcomes # disp[k].outcomes)
    => (Logged("respond") /\ resp.status = 200 /\ resp' = resp)

DispatchStep == run = NoHandler /\ run' = NoHandler /\ disp' # disp

\* C14 (notification failures are absorbed) - whatever the sends and the
\* cleanup write of a notification do, the 200 already sent stays the answer
\* and the session list stays as the operation wrote it.
C14_FailuresAbsorbed ==
    /\ [][DispatchStep => UNCHANGED <<resp, sessions, sessionsFile>>]_vars
    /\ []((resp.status = 200 /\ run = NoHandler)
             => (sessionsFile = sessions /\ Logged("respond")))

\* C14 witness: the operation was answered 200, its notification cleaned a
\* subscription up and the write of users.json failed; the session is stored
C14_Witness ==
    /\ resp.status = 200
    /\ run = NoHandler
    /\ \A k \in DOMAIN disp : disp[k].pc = "idle"
    /\ users # usersFile
    /\ sessions # <<>>
    /\ sessionsFile = sessions

----------------------------------------------------------------------------
(* Properties of the roster of a session *)

\* two names designate the same user
SameUser(a, b) == toLowerCase(trim(a)) = toLowerCase(trim(b))

\* C21 (organizer exclusion) - in every reachable state the organizer of a
\* session is, as a user, neither among its participants nor among its
\* followers, whatever joins, leaves, bulk updates, follows and unfollows
\* were served.
C21_OrganizerExcluded ==
    \A k \in 1..Len(sessions) :
        /\ \A j \in 1..Len(sessions[k].participants) :
               ~SameUser(sessions[k].participants[j], sessions[k].organizer)
        /\ \A j \in 1..Len(sessions[k].followers) :
               ~SameUser(sessions[k].followers[j], sessions[k].organizer)

\* C21 witness: a session with a participant and a follower has just refused
\* its organizer
C21_Witness ==
    /\ resp.status = 400
    /\ resp.error \in {"Organisateur déjà inscrit",
                       "L'organisateur ne peut pas suivre sa propre session",
                       "L'organisateur ne peut pas être ajouté comme participant"}
    /\ \E k \in 1..Len(sessions) :
         /\ sessions[k].participants # <<>>
         /\ sessions[k].followers # <<>>

\* C22 (one registration per user per session) - no name occurs more than once
\* in the participants of a session.
C22_OneRegistration ==
    \A k \in 1..Len(sessions) :
        \A i, j \in 1..Len(sessions[k].participants) :
            sessions[k].participants[i] = sessions[k].participants[j] => i = j

----------------------------------------------------------------------------
(* The ceiling of the session collection *)

\* a create request sent at the ceiling is refused and stores nothing
RefusedAtCeiling ==
    Len(sessions) >= MAX_SESSIONS =>
        \A in \in CreateInputs \cup {<<ann, LatePayload>>} :
            LET out == createOutcome(in[1], in[2]) IN
            /\ out.status # 200
            /\ out.sessions = sessions
            /\ ~out.wrote
            /\ out.notified = <<>>

\* C23 (collection-size ceiling) - the cached and the persisted session list
\* never hold more than MAX_SESSIONS sessions; a createSession served while
\* MAX_SESSIONS sessions are stored, sessions that are over but not purged
\* included, is refused and stores nothing.
C23_SessionCeiling ==
    /\ Len(sessions) <= MAX_SESSIONS
    /\ Len(sessionsFile) <= MAX_SESSIONS
    /\ RefusedAtCeiling

\* C23 witness: a create with a valid payload was refused for the ceiling
\* while the list held MAX_SESSIONS sessions, some of them over
C23_Witness ==
    /\ Len(sessions) = MAX_SESSIONS
    /\ resp.op = "create"
    /\ resp.status = 400
    /\ resp.error = "Limite de sessions atteinte (16 maximum)"
    /\ \E k \in 1..Len(sessions) : sessionHasExpired(sessions[k], now)

----------------------------------------------------------------------------
(* The backup file *)

\* the last call was a write(list) and it has returned normally
WriteReturned == w.pc = "idle" /\ last.op = "write" /\ last.status = "ok"

\* the backup write of the last write threw, which writeFile logs and swallows
BackupWriteFailed == intr.active /\ intr.phase = "backup"

\* C24 as stated - after every write(list) that returns successfully the
\* backup holds the same content as the primary
C24_Original == WriteReturned => backup = primary

\* C24 (mirrored backup) - after a write(list) that returns successfully the
\* primary holds the serialization of the list; the backup holds the same
\* content unless the backup write threw, which writeFile swallows: the
\* write then still returns successfully and the backup keeps the content
\* it had.  The backup only ever changes to the complete serialization of the
\* list being written.
C24_MirroredBackup ==
    /\ [](WriteReturned =>
            /\ primary = File(Serialize(cache.val))
            /\ ~BackupWriteFailed => backup = primary)
    /\ [][(WriteReturned' /\ BackupWriteFailed') => backup' = backup]_vars
    /\ [][backup' # backup =>
            (w.phase = "backup" /\ backup' = File(Serialize(w.data)))]_vars

\* C24 witness: a write of a list with an element has returned and both files
\* hold its serialization
C24_Witness ==
    /\ WriteReturned
    /\ ~intr.active
    /\ cache.val # <<>>
    /\ backup = primary
    /\ primary = File(Serialize(cache.val))

----------------------------------------------------------------------------
(* The order of the validations of create and edit *)

\* the stored sessions other than the one with this id (0: none is excluded)
\* that hold the club and the normalized datetime of the payload
PairTaken(p, exceptId) ==
    /\ ~isNaN(p.datetime)
    /\ \E k \in 1..Len(sessions) :
         /\ sessions[k].id # exceptId
         /\ sessions[k].club = trim(p.club)
         /\ sessions[k].datetime = toISOString(getTime(p.datetime))

\* the numbers of the validation rules a payload violates; occupied is the
\* occupied count of the edited session, 0 for a create
ViolatedRules(p, op, sessionId, occupied) ==
    {r \in 1..9 :
        \/ r = 1 /\ (isNaN(p.datetime) \/ getTime(p.datetime) < now - GRACE_MINUTES)
        \/ r = 2 /\ (p.durationMinutes <= 0 \/ p.durationMinutes > MAX_DURATION)
        \/ r = 3 /\ (trim(p.club) = <<>> \/ ~includes(clubs, trim(p.club)))
        \/ r = 4 /\ trim(p.level) \notin allowedLevels
        \/ r = 5 /\ (p.capacity < 1 \/ p.capacity > MAX_CAPACITY)
        \/ r = 6 /\ p.pricePerParticipant < 0
        \/ r = 7 /\ PairTaken(p, sessionId)
        \/ r = 8 /\ op = "create" /\ Len(sessions) >= MAX_SESSIONS
        \/ r = 9 /\ op = "edit" /\ p.capacity < occupied}

\* the error messages of a rule
RuleErrors(r) ==
    CASE r = 1 -> {"Date/heure invalide", "La session doit être dans le futur"}
      [] r = 2 -> {"Durée invalide"}
      [] r = 3 -> {"Club invalide", "Club inconnu"}
      [] r = 4 -> {"Niveau invalide"}
      [] r = 5 -> {"Capacité invalide"}
      [] r = 6 -> {"Prix invalide"}
      [] r = 7 -> {"Une session existe déjà pour ce club à cette date"}
      [] r = 8 -> {"Limite de sessions atteinte (16 maximum)"}
      [] r = 9 -> {"La capacité ne peut être inférieure au nombre actuel de participants"}

\* the outcome reports the violated rule with the lowest number
ReportsLowest(out, rules) ==
    Cardinality(rules) >= 2 =>
        LET lowest == CHOOSE r \in rules : \A q \in rules : r <= q
        IN  out.status = 400 /\ out.error \in RuleErrors(lowest)

\* C25 (validation order) - a create or edit request that reaches the payload
\* validations and violates several rules is answered with the error of the
\* violated rule that comes first in the order datetime, duration, club,
\* level, capacity range, price, (club, datetime) uniqueness, ceiling (create),
\* capacity >= occupied count (edit).
C25_ValidationOrder ==
    /\ \A p \in Payloads \cup {LatePayload} :
           ReportsLowest(createOutcome(ann, p), ViolatedRules(p, "create", 0, 0))
    /\ \A p \in Payloads \cup {LatePayload}, k \in 1..Len(sessions) :
           (sessions[k].organizer = ann /\ ~sessionHasStarted(sessions[k], now))
           => ReportsLowest(editOutcome(ann, sessions[k].id, p),
                            ViolatedRules(p, "edit", sessions[k].id,
                                          Len(sessions[k].participants) + 1))

----------------------------------------------------------------------------
(* Join, leave and the bulk update of the participants *)

\* the endpoints of the subscriptions of the users of these names, in order
RECURSIVE EndpointsOfUsers(_)
EndpointsOfUsers(names) ==
    IF names = <<>> THEN <<>>
    ELSE LET u == findUser(users, Head(names))
             own == IF u = 0 THEN <<>>
                    ELSE [j \in 1..Len(users[u].pushSubscriptions) |->
                             users[u].pushSubscriptions[j].endpoint]
         IN  own \o EndpointsOfUsers(Tail(names))

\* the actors of the checks: every cookie that designates an account
Actors == {c \in RosterCookies \cup {dan} : findUser(users, c) # 0}

AccountOf(cookie) == users[findUser(users, cookie)].name

\* what a join by this actor on the k-th session must do
JoinAsSpecified(cookie, k) ==
    LET s == sessions[k]
        a == AccountOf(cookie)
        out == joinOutcome(cookie, s.id)
        allowed == /\ now < getTime(s.datetime)
                   /\ a # s.organizer
                   /\ ~includes(s.participants, a)
                   /\ Len(s.participants) + 1 < s.capacity
    IN  /\ out.status = 200 <=> allowed
        /\ out.status # 200 => (out.sessions = sessions /\ out.notified = <<>>)
        /\ out.status = 200 =>
             /\ out.sessions = [sessions EXCEPT ![k].participants = s.participants \o <<a>>]
             /\ out.notified =
                  << [fn |-> "participantJoined", sid |-> s.id,
                      to |-> EndpointsOfUsers(<<s.organizer>> \o s.followers)] >>

\* C26 (join) - a join by an authenticated actor on a stored session succeeds
\* exactly when the session has not started, the actor is not the organizer,
\* is not among the participants and participants.length + 1 < capacity; it
\* then appends the actor, changes nothing else, and triggers one
\* participant-joined notification addressed to the organizer and the
\* followers.
C26_Join ==
    \A cookie \in Actors, k \in 1..Len(sessions) : JoinAsSpecified(cookie, k)

\* C26 witness: a join was accepted on a session with a follower who has a
\* subscription, and the organizer and the follower are notified
C26_Witness ==
    /\ resp.op = "join" /\ resp.status = 200
    /\ \E k \in 1..Len(sessions) :
         /\ sessions[k].followers # <<>>
         /\ Len(notified) = 1
         /\ notified[1].fn = "participantJoined"
         /\ Len(notified[1].to) >= 2

\* what a leave by this actor on the k-th session must do
LeaveAsSpecified(cookie, k) ==
    LET s == sessions[k]
        a == AccountOf(cookie)
        out == leaveOutcome(cookie, s.id)
        allowed == /\ a # s.organizer
                   /\ includes(s.participants, a)
                   /\ now < getTime(s.datetime)
        wasFull == Len(s.participants) + 1 = s.capacity
        left == [to |-> EndpointsOfUsers(<<s.organizer>> \o s.followers),
                 fn |-> "participantLeft", sid |-> s.id]
        spot == [to |-> AllEndpoints, fn |-> "spotAvailable", sid |-> s.id]
    IN  /\ out.status = 200 <=> allowed
        /\ out.status # 200 => (out.sessions = sessions /\ out.notified = <<>>)
        /\ out.status = 200 =>
             /\ out.sessions =
                  [sessions EXCEPT ![k].participants = SelectSeq(@, LAMBDA n : n # a)]
             /\ out.notified = IF wasFull THEN <<left, spot>> ELSE <<left>>

\* C27 (leave) - a leave by an authenticated actor on a stored session
\* succeeds exactly when the actor is not the organizer, is a participant and
\* the session has not started; it then removes the actor, triggers a
\* participant-left notification to the organizer and the followers, and
\* triggers a spot-available notification to all subscribers exactly when
\* participants.length + 1 equalled the capacity before the removal.
C27_Leave ==
    \A cookie \in Actors, k \in 1..Len(sessions) : LeaveAsSpecified(cookie, k)

\* C27 witness: a participant has left a session that was not full, with a
\* follower: one notification, no spot-available
C27_Witness ==
    /\ resp.op = "leave" /\ resp.status = 200
    /\ Len(notified) = 1
    /\ notified[1].fn = "participantLeft"
    /\ Len(notified[1].to) >= 2
    /\ \E k \in 1..Len(sessions) :
         /\ sessions[k].id = resp.sid
         /\ sessions[k].followers # <<>>
         /\ Len(sessions[k].participants) + 2 < sessions[k].capacity

\* a name the bulk update accepts for this organizer
AcceptableName(name, organizer) ==
    /\ Len(trim(name)) >= 1
    /\ Len(trim(name)) <= 20
    /\ toLowerCase(trim(name)) # toLowerCase(organizer)

\* what a bulk update by this actor on the k-th session must do
UpdateAsSpecified(cookie, k, names) ==
    LET s == sessions[k]
        a == AccountOf(cookie)
        out == updateOutcome(cookie, s.id, names)
        allowed == /\ a = s.organizer
                   /\ now < getTime(s.datetime)
                   /\ \A i \in 1..Len(names) : AcceptableName(names[i], s.organizer)
                   /\ Len(names) + 1 <= s.capacity
        fullBefore == Len(s.participants) + 1 >= s.capacity
        fullAfter == Len(names) + 1 >= s.capacity
    IN  /\ out.status = 200 <=> allowed
        /\ out.status # 200 => (out.sessions = sessions /\ out.notified = <<>>)
        /\ out.status = 200 =>
             /\ out.sessions =
                  [sessions EXCEPT ![k].participants = [i \in 1..Len(names) |-> trim(names[i])]]
             /\ out.notified =
                  IF fullBefore /\ ~fullAfter
                  THEN << [to |-> AllEndpoints, fn |-> "spotAvailable", sid |-> s.id] >>
                  ELSE <<>>

\* C28 (updateParticipants) - a bulk replace by an authenticated actor on a
\* stored session succeeds exactly when the actor is the organizer, the session
\* has not started, every name has a trimmed form of 1..20 characters that
\* differs case-insensitively from the organizer, and newCount + 1 <= capacity;
\* the participants then become the trimmed names in request order, and a
\* spot-available notification is triggered exactly when the session was full
\* before and is not full after.
C28_UpdateParticipants ==
    \A cookie \in Actors, k \in 1..Len(sessions), names \in ParticipantLists :
        UpdateAsSpecified(cookie, k, names)

\* C28 witness: the organizer has emptied a full session, which triggered a
\* spot-available notification
C28_Witness ==
    /\ resp.op = "update" /\ resp.status = 200
    /\ Len(notified) = 1
    /\ notified[1].fn = "spotAvailable"
    /\ \E k \in 1..Len(sessions) :
         /\ sessions[k].id = resp.sid
         /\ Len(sessions[k].participants) + 1 < sessions[k].capacity

----------------------------------------------------------------------------
(* The chat history *)

\* what a message sent by this actor to the k-th session must do
SendAsSpecified(cookie, k, text) ==
    LET s == sessions[k]
        a == AccountOf(cookie)
        out == sendMessageOutcome(cookie, s.id, text)
        allowed == /\ \/ a = s.organizer
                      \/ includes(s.participants, a)
                      \/ includes(s.followers, a)
                   /\ now < getTime(s.datetime)
                   /\ Len(trim(text)) >= 1
                   /\ Len(trim(text)) <= 500
        old == s.messages
        new == out.sessions[k].messages
        kept == Len(new) - 1
    IN  /\ out.status = 200 <=> allowed
        /\ out.status # 200 => out.sessions = sessions
        /\ out.status = 200 =>
             /\ out.sessions = [sessions EXCEPT ![k].messages = new]
             /\ Len(new) = IF Len(old) + 1 > 50 THEN 50 ELSE Len(old) + 1
             /\ new[Len(new)].sender = a
             /\ new[Len(new)].text = trim(text)
             /\ \A i \in 1..Len(old) : new[Len(new)].id # old[i].id
             /\ \A i \in 1..kept : new[i] = old[Len(old) - kept + i]

\* C29 (message history bound) - every session holds at most 50 messages; a
\* message is accepted exactly when the sender is the organizer, a participant
\* or a follower of a session that has not started and the trimmed text has
\* 1..500 characters, whatever the length of the history; the accepted message
\* is stored last, and the stored history is the 50 most recent messages in
\* their original order.
C29_MessageHistory ==
    /\ \A k \in 1..Len(sessions) : Len(sessions[k].messages) <= 50
    /\ \A cookie \in Actors, k \in 1..Len(sessions), text \in Texts4Chat :
           SendAsSpecified(cookie, k, text)

\* C29 witness: a message was accepted for a session whose history was at the
\* cap, and the oldest message was dropped
C29_Witness ==
    /\ resp.op = "sendMessage" /\ resp.status = 200
    /\ \E k \in 1..Len(sessions) :
         /\ sessions[k].id = resp.sid
         /\ Len(sessions[k].messages) = 50
         /\ sessions[k].messages[1].id = 3
         /\ sessions[k].messages[50].id = 52

----------------------------------------------------------------------------
(* The effects of an edit *)

\* what an edit by this actor on the k-th session must do
EditAsSpecified(cookie, k, p) ==
    LET s == sessions[k]
        out == editOutcome(cookie, s.id, p)
        e == out.sessions[k]
        moved == getTime(p.datetime) # getTime(s.datetime)
    IN  /\ p.capacity < Len(s.participants) + 1 => out.status # 200
        /\ out.status # 200 => out.sessions = sessions
        /\ out.status = 200 =>
             /\ out.sessions = [sessions EXCEPT ![k] = e]
             /\ e = [s EXCEPT !.datetime = e.datetime,
                              !.durationMinutes = e.durationMinutes,
                              !.club = e.club,
                              !.level = e.level,
                              !.capacity = e.capacity,
                              !.pricePerParticipant = e.pricePerParticipant,
                              !.reminderSent = e.reminderSent]
             /\ getTime(e.datetime) = getTime(p.datetime)
             /\ e.capacity = p.capacity
             /\ e.reminderSent = IF moved THEN FALSE ELSE s.reminderSent

\* C30 (edit effects) - an accepted edit changes only datetime,
\* durationMinutes, club, level, capacity, pricePerParticipant and reminderSent
\* of the target session and leaves the other sessions alone; reminderSent is
\* false afterwards when the new datetime designates another instant than the
\* stored one and keeps its value otherwise; an edit with a capacity below
\* participants.length + 1 is refused.
C30_EditEffects ==
    \A in \in EditInputs, k \in 1..Len(sessions) : EditAsSpecified(in[1], k, in[2])

\* C30 witness: an edit moved a session whose reminder had been sent, and the
\* flag is down again
C30_Witness ==
    /\ resp.op = "edit" /\ resp.status = 200
    /\ \E k \in 1..Len(sessions) :
         /\ sessions[k].id = resp.sid
         /\ ~sessions[k].reminderSent
         /\ fired[sessions[k].id].prior
         /\ fired[sessions[k].id].n = 0

----------------------------------------------------------------------------
(* Deletion *)

\* the stored session of this id, as a set: empty or a singleton
StoredWithId(sessionId) == {k \in 1..Len(sessions) : sessions[k].id = sessionId}

\* what a delete of this id by this cookie must do
DeleteAsSpecified(cookie, sessionId) ==
    LET out == deleteOutcome(cookie, sessionId)
        allowed == \E k \in StoredWithId(sessionId) :
                       /\ findUser(users, cookie) # 0
                       /\ sessions[k].organizer = AccountOf(cookie)
    IN  /\ out.status = 200 <=> allowed
        /\ out.status # 200 => out.sessions = sessions
        /\ out.status = 200 =>
             out.sessions = SelectSeq(sessions, LAMBDA s : s.id # sessionId)

----------------------------------------------------------------------------
(* Followers *)

Distinct(list) == \A i, j \in 1..Len(list) : list[i] = list[j] => i = j

\* the refusals of follow and unfollow, the followers they leave distinct, and
\* the accepted follow undone at once by the same user
FollowAsSpecified(cookie, k) ==
    LET s == sessions[k]
        a == AccountOf(cookie)
        f == followOutcome(cookie, s.id)
        u == unfollowOutcome(cookie, s.id)
        back == unfollowIn(f.sessions, cookie, s.id)
    IN  /\ a = s.organizer => f.status # 200
        /\ includes(s.followers, a) => f.status # 200 /\ f.error # ""
        /\ ~includes(s.followers, a) => u.status # 200 /\ u.error # ""
        /\ f.status # 200 => f.sessions = sessions
        /\ u.status # 200 => u.sessions = sessions
        /\ f.status = 200 =>
             /\ f.sessions = [sessions EXCEPT ![k].followers = s.followers \o <<a>>]
             /\ back.status = 200
             /\ back.sessions = sessions

\* C32 (follow / unfollow) - a follow by the organizer is refused; a follow by
\* a follower and an unfollow by a user who does not follow are refused with an
\* error and change nothing; the followers of a session are pairwise distinct;
\* an accepted follow directly followed by the same user's unfollow restores
\* the followers exactly.
C32_FollowUnfollow ==
    /\ \A k \in 1..Len(sessions) : Distinct(sessions[k].followers)
    /\ \A cookie \in Actors, k \in 1..Len(sessions) : FollowAsSpecified(cookie, k)

\* C32 witness: a second user has just followed a session
C32_Witness ==
    /\ resp.op = "follow" /\ resp.status = 200
    /\ \E k \in 1..Len(sessions) :
         /\ sessions[k].id = resp.sid
         /\ Len(sessions[k].followers) = 2

----------------------------------------------------------------------------
(* The recipients of the notifications *)

\* how many times an endpoint occurs in a list of endpoints
Count(endpoint, list) == Cardinality({i \in 1..Len(list) : list[i] = endpoint})

\* a stored name designates this user, whatever its letter case
Designates(name, user) == toLowerCase(name) = toLowerCase(user.name)

\* the user is the organizer, a participant or a follower of the session
HasRole(user, session) ==
    \/ Designates(session.organizer, user)
    \/ \E i \in 1..Len(session.participants) : Designates(session.participants[i], user)
    \/ \E i \in 1..Len(session.followers) : Designates(session.followers[i], user)

\* the pushes of an accepted chat message, subscription by subscription
ChatRecipientsAsSpecified(cookie, k) ==
    LET s == sessions[k]
        out == sendMessageOutcome(cookie, s.id, hi)
        sender == users[findUser(users, cookie)]
    IN  out.status = 200 =>
          /\ Len(out.notified) = 1
          /\ \A u \in 1..Len(users) : \A j \in 1..Len(users[u].pushSubscriptions) :
               Count(users[u].pushSubscriptions[j].endpoint, out.notified[1].to)
                 = IF users[u] # sender /\ HasRole(users[u], s) THEN 1 ELSE 0

\* C33 (chat recipients) - for every accepted chat message no push goes to a
\* subscription of the sender, and every subscription of each other user who is
\* the organizer, a participant or a follower gets exactly one push, also when
\* the user holds several roles or the stored names differ in letter case only.
C33_ChatRecipients ==
    \A cookie \in Actors, k \in 1..Len(sessions) : ChatRecipientsAsSpecified(cookie, k)

\* the pushes of an accepted creation, subscription by subscription
NewSessionRecipientsAsSpecified(cookie, p) ==
    LET out == createOutcome(cookie, p)
        organizer == users[findUser(users, cookie)]
    IN  out.status = 200 =>
          /\ Len(out.notified) = 1
          /\ out.notified[1].fn = "newSession"
          /\ \A u \in 1..Len(users) : \A j \in 1..Len(users[u].pushSubscriptions) :
               Count(users[u].pushSubscriptions[j].endpoint, out.notified[1].to)
                 = IF users[u] = organizer THEN 0 ELSE 1

----------------------------------------------------------------------------
(* The delivery attempts of one sendPushNotifications call *)

\* the attempts made so far are the first subscriptions of the snapshot, one
\* each, and a call that has returned has attempted them all
AttemptsInOrder ==
    \A k \in DOMAIN disp :
        LET d == disp[k] IN
        /\ Len(d.outcomes) <= Len(d.subs)
        /\ d.pc = "sending" => d.i = Len(d.outcomes) + 1
        /\ d.pc = "returned" => Len(d.outcomes) = Len(d.subs)

\* a send that settles, with any status, adds one attempt and leaves the
\* snapshot and the outcomes of the attempts before it as they are; the call
\* goes on with the next subscription unless this one was the last
OneAttemptPerSend ==
    \A k \in DOMAIN disp :
        (disp[k].pc = "sending" /\ disp'[k] # disp[k]) =>
            /\ disp'[k].subs = disp[k].subs
            /\ Len(disp'[k].outcomes) = Len(disp[k].outcomes) + 1
            /\ SubSeq(disp'[k].outcomes, 1, Len(disp[k].outcomes)) = disp[k].outcomes
            /\ disp'[k].pc = IF Len(disp'[k].outcomes) < Len(disp[k].subs)
                             THEN "sending" ELSE "returned"

\* C35 (independent fan-out) - in one dispatch every subscription of the
\* resolved recipients gets exactly one delivery attempt, whatever the outcome
\* of the attempts before it; a failure never stops the remaining attempts.
C35_IndependentFanOut == []AttemptsInOrder /\ [][OneAttemptPerSend]_vars

\* C35 witness: a call has returned after two attempts, the first of which
\* failed
C35_Witness ==
    \E k \in DOMAIN disp :
        /\ disp[k].pc = "returned"
        /\ Len(disp[k].subs) = 2
        /\ Len(disp[k].outcomes) = 2
        /\ disp[k].outcomes[1] \in {404, 410, 500}

----------------------------------------------------------------------------
(* The reminder scan *)

\* the scan at the present time sets the flag of this session
Fires(session) ==
    /\ ~session.reminderSent
    /\ 0 < getTime(session.datetime) - now
    /\ getTime(session.datetime) - now <= 45

\* the reminder of a session: to the organizer and the participants it has
ReminderOf(session) ==
    [fn |-> "reminder", sid |-> session.id,
     to |-> EndpointsOfUsers(<<session.organizer>> \o session.participants)]

\* the reminders of the sessions of a list that fire, in the order of the list
RECURSIVE RemindersOf(_)
RemindersOf(list) ==
    IF list = <<>> THEN <<>>
    ELSE (IF Fires(Head(list)) THEN <<ReminderOf(Head(list))>> ELSE <<>>)
             \o RemindersOf(Tail(list))

\* C36 (reminder firing condition) - a scan sets reminderSent and dispatches
\* a reminder for a session exactly when its flag is down and its start is
\* more than 0 and at most 45 minutes away; the reminder goes to the organizer
\* and the participants the session has at the time of the scan; the scan
\* changes nothing else.
C36_ReminderFiring ==
    /\ Len(scanOutcome.sessions) = Len(sessions)
    /\ \A k \in 1..Len(sessions) :
         scanOutcome.sessions[k] =
             IF Fires(sessions[k]) THEN [sessions[k] EXCEPT !.reminderSent = TRUE]
             ELSE sessions[k]
    /\ scanOutcome.notified = RemindersOf(sessions)

\* C36 witness: a scan has sent the reminder of a session with a participant
\* to the organizer and the participant, while the other session is too far
C36_Witness ==
    /\ resp.op = "scan"
    /\ Len(sessions) = 2
    /\ Len(notified) = 1
    /\ notified[1].to = <<"e1", "e2">>
    /\ \E k \in 1..2 : sessions[k].id = notified[1].sid /\ sessions[k].reminderSent
    /\ \E k \in 1..2 : ~sessions[k].reminderSent /\ getTime(sessions[k].datetime) - now > 45

----------------------------------------------------------------------------
(* The writes of the timer callback *)

\* the positions of the log where the session list was written, or where the
\* write was attempted and threw
WritesOf(l) == {i \in 1..Len(l) : l[i] \in {"write", "writeFailed"}}

FlagsOf(l) == {i \in 1..Len(l) : l[i] = "flag"}

\* a callback in progress writes at most once, after its last flag, and a
\* callback that is over and has set a flag has written once
ScanWrites ==
    run.op = "scan" =>
        /\ Cardinality(WritesOf(log)) <= 1
        /\ WritesOf(log) # {} =>
             /\ WritesOf(log) = {Len(log)}
             /\ \A i \in 1..Len(run.steps) : run.steps[i] # "flag"
        /\ log # <<>> /\ log[Len(log)] = "write" => sessionsFile = sessions
        /\ run.steps = <<>> => FlagsOf(log) # {} /\ Cardinality(WritesOf(log)) = 1

\* a callback that finds no session due sets no flag and changes neither the
\* cached list nor the file; while a callback runs the file changes with its
\* write only
ScanStoreStep ==
    /\ (run = NoHandler /\ run' = NoHandler /\ resp'.op = "scan"
            /\ <<resp, log>>' # <<resp, log>>) =>
           sessions' = sessions /\ sessionsFile' = sessionsFile /\ log' = <<>>
    /\ (run.op = "scan" /\ sessionsFile' # sessionsFile) =>
           Cardinality(WritesOf(log')) = 1 /\ sessionsFile' = sessions

\* C37 (one write per scan) - a scan that sets the flag of k >= 1 sessions
\* writes the session list exactly once, after all k flags are set; a scan
\* that sets no flag writes nothing and leaves the store as it is.
C37_OneWritePerScan == []ScanWrites /\ [][ScanStoreStep]_vars

\* C37 witness: a callback has set two flags and then written once
C37_Witness ==
    /\ run.op = "scan"
    /\ run.steps = <<>>
    /\ log = <<"flag", "notify", "flag", "notify", "write">>
    /\ \A k \in 1..Len(sessionsFile) : sessionsFile[k].reminderSent

\* the file holds the session of this id with its flag set
FlagOnFile(sessionId) ==
    \E k \in 1..Len(sessionsFile) :
        sessionsFile[k].id = sessionId /\ sessionsFile[k].reminderSent

\* the callback starts a reminder dispatch only for a session whose flag is
\* in the file
DispatchAfterWrite ==
    (run.op = "scan" /\ log' = Append(log, "notify")) =>
        FlagOnFile(Head(run.calls).sid)

\* no session gets a second reminder for the same datetime
NoSecondReminder == \A id \in DOMAIN fired : fired[id].n <= 1

\* C38 (reminder dispatched only after persistence) - the reminder dispatch of
\* a session starts only once the list carrying its reminderSent = true is
\* written, and no failed write or stop and restart leads to a second reminder
\* for the same session and datetime.
C38_PersistedBeforeDispatch == []NoSecondReminder /\ [][DispatchAfterWrite]_vars

----------------------------------------------------------------------------
(* Cleanup and the subscriptions registered meanwhile *)

\* the subscription is the one the dispatch took into its snapshot
InSnapshot(d, user, sub) ==
    \E j \in 1..Len(d.subs) :
        /\ d.subs[j].endpoint = sub.endpoint
        /\ d.subs[j].keys = sub.keys
        /\ d.subs[j].userName = user.name

\* the cleanup of a call leaves in place every subscription that was
\* registered, by its owner or by another user, while the call was sending
FreshSurvive ==
    \A k \in DOMAIN disp :
        (disp[k].pc = "sending" /\ disp'[k].pc = "returned") =>
            \A u \in 1..Len(users) : \A j \in 1..Len(users[u].pushSubscriptions) :
                LET sub == users[u].pushSubscriptions[j] IN
                ~InSnapshot(disp[k], users[u], sub) =>
                    \E i \in 1..Len(users'[u].pushSubscriptions) :
                        users'[u].pushSubscriptions[i] = sub

\* C39 (pruning does not destroy fresh subscriptions) - a subscription that
\* subscribePush registers for an endpoint while a dispatch is in flight is
\* still in the Users collection after the cleanup of that dispatch, also when
\* the dispatch's send to that endpoint has failed with 410 or 404.
C39_FreshSubscriptionsKept == [][FreshSurvive]_vars

----------------------------------------------------------------------------
(* Spot-available notifications *)

\* the session counts as full: the organizer and the participants fill it
Full(s) == Len(s.participants) + 1 >= s.capacity

SpotTriggered(out, s) ==
    \E i \in 1..Len(out.notified) :
        out.notified[i].fn = "spotAvailable" /\ out.notified[i].sid = s.id

\* an accepted operation on the k-th session triggers the spot-available
\* notification exactly when it takes the session from full to not full
SpotAsSpecified(out, k) ==
    out.status = 200 =>
        (SpotTriggered(out, sessions[k])
            <=> (Full(sessions[k]) /\ ~Full(out.sessions[k])))

SpotOnLeaveAndUpdate ==
    \A k \in 1..Len(sessions) :
        /\ \A cookie \in Cookies :
               SpotAsSpecified(leaveOutcome(cookie, sessions[k].id), k)
        /\ \A in \in UpdateInputs :
               SpotAsSpecified(updateOutcome(in[1], sessions[k].id, in[2]), k)

SpotOnEdit ==
    \A k \in 1..Len(sessions) : \A in \in EditInputs :
        SpotAsSpecified(editOutcome(in[1], sessions[k].id, in[2]), k)

====
